---- MODULE Spec2Model ----
(***************************************************************************)
(* mcp-center: the daemon's control plane (bridge handshake, roots-based   *)
(* project-id correction), the per-session Host (permission filter), and   *)
(* the Server Manager's tool cache.                                        *)
(*                                                                         *)
(* Two specifications share the variables:                                 *)
(*   Spec      - control plane and Host sessions over a quiescent Server   *)
(*               Manager (no upstream change, cache filled at start);      *)
(*   SpecCache - the Server Manager's tool cache under concurrent callers, *)
(*               upstream tool-list changes and upstream listing errors,   *)
(*               with Host tools/call on top of it.                        *)
(***************************************************************************)
EXTENDS Integers, Sequences, FiniteSets, TLC

VARIABLES
    records,        \* ProjectRegistry: project id -> ProjectRecord (domain = stored ids)
    pc,             \* handle_stream: position of each control connection
    hello,          \* handle_stream: the BridgeHello of the connection
    project_path,   \* handle_stream: normalised project path
    record,         \* handle_stream: the local `record` (loaded or new)
    found,          \* handle_stream: whether a registry.load found a record (handshake / reconcile)
    real_path,      \* handle_stream: path parsed from the first root
    project_id,     \* HostService.project_id: the shared cell of the session
    reply,          \* control messages written to the bridge
    entries,        \* HostService::list_tools: ToolEntry values still to filter
    filtered,       \* HostService::list_tools: tools pushed so far
    lastCheck,      \* history: the last is_tool_allowed evaluation of the session
    lastCall,       \* history: outcome of the last tools/call of the session
    reconciled,     \* history: what the session's roots reconciliation loaded and stored
    servers,        \* ServerManager.servers: ids of the running ManagedServers
    iterOrder,      \* iteration order of the servers HashMap
    upstream,       \* the version of the tool list each upstream currently offers
    notif,          \* tools/list_changed notification in flight, per upstream (0: none)
    needs_refresh,  \* ManagedServer.needs_refresh
    srv_tools,      \* ManagedServer.tools
    tool_index,     \* ServerManager.tool_index: tool name -> server id
    tool_cache,     \* ServerManager.tool_cache: sequence of ToolEntry
    cpc,            \* position of each Server Manager caller
    cop,            \* the caller's operation and its locals
    fresh,          \* history: versions notified, and versions held by index and cache
    budget,         \* remaining environment events (changes, failures, operations)
    defs,           \* Layout: state of each server definition file
    runtime,        \* ManagedServer.runtime of each id: client, pid file; launches so far
    started,        \* ServerManager::start: outcome
    inserted,       \* history: ids in the order they were inserted into the servers map
    mop,            \* history: the last operation or operator command and its outcome
    deco,           \* a ToolEntry under repeated ToolEntry::into_tool
    tool_desc,      \* the description held by the cached Tool of each server and name
    surfaced,       \* history: the tools the last tools/list of a session returned
    disk,           \* projects directory: the file <id>.toml of each id, or None
    rcache,         \* ProjectRegistryInner.cache of the daemon's registry
    clock,          \* the next modification stamp the file system hands out
    rpc,            \* registry tasks: idle, or between the file operation and the patch
    rop,            \* history: the last registry operation that returned
    sockfile,       \* <root>/state/daemon.sock: absent, or the daemon whose listener it names
    dpc,            \* position of each daemon process in spawn_control_server
    bpc,            \* position of each bridge in connect_or_launch
    bspawned,       \* history: daemons the bridge has spawned
    bticks,         \* sleeps of the bridge's polling loop so far
    bconn,          \* the daemon the bridge's stream is connected to
    dfiles,         \* servers directory: the definition file of each id, or None
    creating,       \* each creator of a definition, between its checks and its write
    dop,            \* history: the last init / add / create that returned
    vdef,           \* a ServerDefinition handed to validate
    vres,           \* the result of validate, once it has returned
    rf,             \* a registry access in ensure_cache_fresh / refresh_cache
    er,             \* ensure_server_running: its callers, the processes, the pid file
    tn              \* tunnel_stdio: STDIN, the socket's two directions, STDOUT, the tasks

sessVars == <<pc, hello, project_path, record, found, real_path, project_id, reply,
              entries, filtered, lastCheck, lastCall, reconciled>>
mgrVars  == <<servers, iterOrder, upstream, notif, needs_refresh, srv_tools,
              tool_index, tool_cache>>
callVars == <<cpc, cop, fresh, budget>>
lifeVars == <<defs, runtime, started, inserted, mop>>
descVars == <<deco, tool_desc, surfaced>>
regVars  == <<disk, rcache, clock, rpc, rop>>
ctlVars  == <<sockfile, dpc, bpc, bspawned, bticks, bconn>>
fileVars == <<dfiles, creating, dop>>
valVars  == <<vdef, vres>>
moreVars == <<er, tn>>
extraVars == <<valVars, rf, moreVars>>
adminVars == <<ctlVars, fileVars, extraVars>>
auxVars  == <<regVars, adminVars>>
vars     == <<records, sessVars, mgrVars, callVars, lifeVars, descVars, auxVars>>

(***************************************************************************)
(* Bounds                                                                  *)
(***************************************************************************)
MaxOps      == 2
MaxChanges  == 1
MaxFailures == 1
\* Tokens in an upstream description; applications of into_tool to one entry.
MaxLen      == 3
MaxApply    == 2

\* Host sessions; Spec follows the control connection of the first one.
Sessions == {"s1", "s2"}
Bridges  == {"s1"}

(***************************************************************************)
(* Values                                                                  *)
(***************************************************************************)
ServerIds == {"a", "b"}
ToolNames == {"t1", "t2", "t3"}

None == <<>>
Some(x) == <<x>>
EmptyMap == [x \in {} |-> x]

\* Paths are sequences of components; a trailing "" component is a trailing '/'.
PW  == <<"w">>
PR  == <<"w", "repo">>
PWS == <<"w", "">>
PathTable == <<PW, PR, PWS>>

SeqToSet(s) == {s[i] : i \in 1..Len(s)}
Contains(s, x) == \E i \in 1..Len(s) : s[i] = x


(***************************************************************************)
(* Paths, project ids, root URIs                                           *)
(***************************************************************************)
\* std::path: comparison and starts_with work on components, which drop a
\* trailing separator.
Components(p) == SelectSeq(p, LAMBDA c : c # "")

PathEq(p, q) == Components(p) = Components(q)

starts_with(p, base) ==
    LET cp == Components(p)
        cb == Components(base)
    IN  /\ Len(cb) <= Len(cp)
        /\ SubSeq(cp, 1, Len(cb)) = cb

\* path_signature: the raw bytes of the path (a trailing separator included).
path_signature(p) == p

\* ProjectId::from_path: a hash of the path's bytes, injective on the paths of
\* the model; ids are the strings "p1", "p2", ...
IdTable == <<"p1", "p2", "p3">>
from_path(p) ==
    IdTable[CHOOSE i \in 1..Len(PathTable) : PathTable[i] = path_signature(p)]

ProjectIds == {from_path(PathTable[i]) : i \in 1..Len(PathTable)}

\* normalize_project_path: canonicalize succeeds (no trailing separator, the
\* model has no symlinks) or fails.
normalize_project_path(raw, ok) == IF ok THEN Some(Components(raw)) ELSE None

\* A root URI: scheme, the text between "//" and the path, and the path.
Uri(scheme, host, path) == [scheme |-> scheme, host |-> host, path |-> path]

parse_file_uri(uri) ==
    IF uri.scheme = "file"
    THEN \* strip_prefix("localhost") is optional; what is left must start with '/'
         IF uri.host \in {"", "localhost"} THEN Some(uri.path) ELSE None
    ELSE None

(***************************************************************************)
(* Project records                                                         *)
(***************************************************************************)
ProjectRecord_new(id, path) ==
    [id |-> id, path |-> path,
     allowed_server_ids |-> <<>>,
     allowed_server_tools |-> EmptyMap,
     tool_customizations |-> <<>>,
     agent |-> None]

All == [type |-> "All", tools |-> <<>>]
AllowList(tools) == [type |-> "AllowList", tools |-> tools]
DenyList(tools) == [type |-> "DenyList", tools |-> tools]

Policy(ids, perms, custom) ==
    [allowed_server_ids |-> ids, allowed_server_tools |-> perms,
     tool_customizations |-> custom]

PolicyOf(rec) ==
    Policy(rec.allowed_server_ids, rec.allowed_server_tools, rec.tool_customizations)

WithPolicy(rec, pol) ==
    [rec EXCEPT !.allowed_server_ids = pol.allowed_server_ids,
                !.allowed_server_tools = pol.allowed_server_tools,
                !.tool_customizations = pol.tool_customizations]

\* Records an operator may have written before the daemon serves a session.
OperatorPolicies ==
    { Policy(<<>>, EmptyMap, <<>>),
      Policy(<<"a">>, EmptyMap, <<>>),
      Policy(<<"a">>, [x \in {"a"} |-> DenyList(<<"t1">>)], <<>>),
      Policy(<<"b">>, [x \in {"a"} |-> AllowList(<<"t2">>)],
             <<[tool_name |-> "t1", description |-> Some("custom")]>>),
      Policy(<<"a">>, [x \in {"b"} |-> All], <<>>) }

\* ProjectRegistry::load / store / delete on the registry view.
load(recs, id) == IF id \in DOMAIN recs THEN Some(recs[id]) ELSE None

store(recs, rec) ==
    [i \in DOMAIN recs \cup {rec.id} |-> IF i = rec.id THEN rec ELSE recs[i]]

delete(recs, id) == [i \in DOMAIN recs \ {id} |-> recs[i]]


(***************************************************************************)
(* Server Manager: building the tool cache                                 *)
(***************************************************************************)
MapPut(m, k, v) == [x \in DOMAIN m \cup {k} |-> IF x = k THEN v ELSE m[x]]

ToolEntry(server_id, tool) == [server_id |-> server_id, tool |-> tool]

\* force_refresh_tool_cache, inner loop: one server's tools claim their names
\* in new_index (the latest claim wins) and are pushed to new_entries.
RECURSIVE AddTools(_, _, _)
AddTools(acc, server_id, tools) ==
    IF tools = <<>> THEN acc
    ELSE AddTools([index   |-> MapPut(acc.index, Head(tools), server_id),
                   entries |-> Append(acc.entries, ToolEntry(server_id, Head(tools)))],
                  server_id, Tail(tools))

EmptyCache == [index |-> EmptyMap, entries |-> <<>>]

\* force_refresh_tool_cache, outer loop over the servers in iteration order.
RECURSIVE RefreshAll(_, _, _)
RefreshAll(acc, order, toolsOf) ==
    IF order = <<>> THEN acc
    ELSE RefreshAll(AddTools(acc, Head(order), toolsOf[Head(order)]), Tail(order), toolsOf)

\* ServerManager::list_server_ids: the keys of the servers map, in its order.
list_server_ids == SelectSeq(iterOrder, LAMBDA id : id \in servers)

\* tool_index lookup of get_server_for_tool / call_tool.
index_get(name) == IF name \in DOMAIN tool_index THEN Some(tool_index[name]) ELSE None

(***************************************************************************)
(* Host: permission evaluation                                             *)
(***************************************************************************)
PermissionAllows(permission, tool_name) ==
    CASE permission.type = "All"       -> TRUE
      [] permission.type = "AllowList" -> Contains(permission.tools, tool_name)
      [] permission.type = "DenyList"  -> ~Contains(permission.tools, tool_name)

\* A plausible slip: the server-level list is consulted before the tool-level
\* entry.
is_tool_allowed_ServerLevelFirst(s, tool_name, server_id) ==
    LET r == load(records, project_id[s]) IN
    IF r = None THEN TRUE
    ELSE LET rec == r[1] IN
         IF rec.allowed_server_ids # <<>>
         THEN Contains(rec.allowed_server_ids, server_id)
         ELSE IF server_id \in DOMAIN rec.allowed_server_tools
              THEN PermissionAllows(rec.allowed_server_tools[server_id], tool_name)
              ELSE TRUE

\* HostService::is_tool_allowed for session s.
is_tool_allowed(s, tool_name, server_id) ==
    LET r == load(records, project_id[s]) IN
    IF r # None
    THEN LET rec == r[1] IN
         IF server_id \in DOMAIN rec.allowed_server_tools
         THEN PermissionAllows(rec.allowed_server_tools[server_id], tool_name)
         ELSE IF rec.allowed_server_ids = <<>>
              THEN TRUE
              ELSE Contains(rec.allowed_server_ids, server_id)
    ELSE TRUE

NoCheck == [valid |-> FALSE, op |-> "none", tool |-> "none", server |-> "none",
            pid |-> "none", rec |-> None, allowed |-> FALSE, during |-> "none"]

Check(s, op, tool_name, server_id) ==
    [valid |-> TRUE, op |-> op, tool |-> tool_name, server |-> server_id,
     pid |-> project_id[s], rec |-> load(records, project_id[s]),
     allowed |-> is_tool_allowed(s, tool_name, server_id), during |-> pc[s]]


(***************************************************************************)
(* Control plane: handle_stream                                            *)
(***************************************************************************)
HelloPaths == {PW, PR, PWS}
Agents == {None, Some("cursor")}

Line(kind, path, agent) == [kind |-> kind, project_path |-> path, agent |-> agent]

\* First lines a bridge may send: nothing (EOF), text that is no control
\* message, a control message of another type, or a BridgeHello.
Lines ==
    {Line(k, PW, None) : k \in {"eof", "garbage", "bridge_ready", "error"}}
    \cup {Line("bridge_hello", p, a) : p \in HelloPaths, a \in Agents}

ErrorMsg(message) == [type |-> "error", message |-> message]

ReadyMsg(id, path, ids) ==
    [type |-> "bridge_ready", project_id |-> id, project_path |-> path,
     allowed_server_ids |-> ids]

NoLine == Line("none", PW, None)
NoRecord == ProjectRecord_new("none", PW)
NoReconcile == [valid |-> FALSE, loaded |-> None, initial |-> NoRecord,
                stored |-> NoRecord]

initial_project_id(s) == from_path(project_path[s])
real_project_id(s) == from_path(real_path[s])

\* read_line, serde_json::from_str, the match on the message, and
\* normalize_project_path.
ReadHandshake(s, line, canon_ok) ==
    /\ pc[s] = "accept"
    /\ IF line.kind = "bridge_hello"
       THEN LET n == normalize_project_path(line.project_path, canon_ok) IN
            /\ hello' = [hello EXCEPT ![s] = line]
            /\ project_path' = [project_path EXCEPT ![s] =
                                  IF n = None THEN line.project_path ELSE n[1]]
            /\ pc' = [pc EXCEPT ![s] = "hs_load"]
            /\ reply' = reply
       ELSE /\ pc' = [pc EXCEPT ![s] = "closed"]
            /\ reply' = [reply EXCEPT ![s] =
                           IF line.kind \in {"bridge_ready", "error"}
                           THEN <<ErrorMsg("expected bridge_hello message")>>
                           ELSE <<>>]
            /\ hello' = [hello EXCEPT ![s] = line]
            /\ project_path' = project_path
    /\ UNCHANGED <<records, record, found, real_path, project_id, entries, filtered,
                   lastCheck, lastCall, reconciled, mgrVars, callVars>>
    /\ UNCHANGED <<lifeVars, descVars, auxVars>>

\* A plausible slip: a new record is stored as ProjectRecord::new left it, with no
\* server seeded.
HandshakeLoad_NoSeed(s) ==
    /\ pc[s] = "hs_load"
    /\ LET r == load(records, initial_project_id(s))
           base == IF r # None THEN r[1]
                   ELSE ProjectRecord_new(initial_project_id(s), project_path[s])
           withAgent == IF hello[s].agent # None
                        THEN [base EXCEPT !.agent = hello[s].agent] ELSE base
           withPath == IF ~PathEq(withAgent.path, project_path[s])
                       THEN [withAgent EXCEPT !.path = project_path[s]] ELSE withAgent
       IN  /\ record' = [record EXCEPT ![s] = withPath]
           /\ found' = [found EXCEPT ![s] = (r # None)]
    /\ pc' = [pc EXCEPT ![s] = "hs_store"]
    /\ UNCHANGED <<records, hello, project_path, real_path, project_id, reply, entries,
                   filtered, lastCheck, lastCall, reconciled, mgrVars, callVars>>
    /\ UNCHANGED <<lifeVars, descVars, auxVars>>

\* A plausible slip: the allow list is seeded from the manager for an existing
\* record as well.
HandshakeLoad_Reseed(s) ==
    /\ pc[s] = "hs_load"
    /\ LET r == load(records, initial_project_id(s))
           base == [IF r # None THEN r[1]
                    ELSE ProjectRecord_new(initial_project_id(s), project_path[s])
                      EXCEPT !.allowed_server_ids = list_server_ids]
           withAgent == IF hello[s].agent # None
                        THEN [base EXCEPT !.agent = hello[s].agent] ELSE base
           withPath == IF ~PathEq(withAgent.path, project_path[s])
                       THEN [withAgent EXCEPT !.path = project_path[s]] ELSE withAgent
       IN  /\ record' = [record EXCEPT ![s] = withPath]
           /\ found' = [found EXCEPT ![s] = (r # None)]
    /\ pc' = [pc EXCEPT ![s] = "hs_store"]
    /\ UNCHANGED <<records, hello, project_path, real_path, project_id, reply, entries,
                   filtered, lastCheck, lastCall, reconciled, mgrVars, callVars>>
    /\ UNCHANGED <<lifeVars, descVars, auxVars>>

\* registry.load(&initial_project_id) and the construction of `record`.
HandshakeLoad(s) ==
    /\ pc[s] = "hs_load"
    /\ LET r == load(records, initial_project_id(s))
           base == IF r # None THEN r[1]
                   ELSE [ProjectRecord_new(initial_project_id(s), project_path[s])
                           EXCEPT !.allowed_server_ids = list_server_ids]
           withAgent == IF hello[s].agent # None
                        THEN [base EXCEPT !.agent = hello[s].agent] ELSE base
           withPath == IF ~PathEq(withAgent.path, project_path[s])
                       THEN [withAgent EXCEPT !.path = project_path[s]] ELSE withAgent
       IN  /\ record' = [record EXCEPT ![s] = withPath]
           /\ found' = [found EXCEPT ![s] = (r # None)]
    /\ pc' = [pc EXCEPT ![s] = "hs_store"]
    /\ UNCHANGED <<records, hello, project_path, real_path, project_id, reply, entries,
                   filtered, lastCheck, lastCall, reconciled, mgrVars, callVars>>
    /\ UNCHANGED <<lifeVars, descVars, auxVars>>

\* registry.store(&record), the BridgeReady line, the project-id cell.
HandshakeStore(s) ==
    /\ pc[s] = "hs_store"
    /\ records' = store(records, record[s])
    /\ reply' = [reply EXCEPT ![s] =
                   <<ReadyMsg(record[s].id, project_path[s], record[s].allowed_server_ids)>>]
    /\ project_id' = [project_id EXCEPT ![s] = initial_project_id(s)]
    /\ pc' = [pc EXCEPT ![s] = "mcp_init"]
    /\ UNCHANGED <<hello, project_path, record, found, real_path, entries, filtered,
                   lastCheck, lastCall, reconciled, mgrVars, callVars>>
    /\ UNCHANGED <<lifeVars, descVars, auxVars>>

\* host_service.serve(transport).await: the MCP initialize exchange.
McpServe(s, ok) ==
    /\ pc[s] = "mcp_init"
    /\ pc' = [pc EXCEPT ![s] = IF ok THEN "roots" ELSE "closed"]
    /\ UNCHANGED <<records, hello, project_path, record, found, real_path, project_id,
                   reply, entries, filtered, lastCheck, lastCall, reconciled, mgrVars,
                   callVars>>
    /\ UNCHANGED <<lifeVars, descVars, auxVars>>

\* What peer.list_roots() may yield: an error, no root, or a first root.
RootUris ==
    {Uri("file", "", PR), Uri("file", "localhost", PR), Uri("file", "", PW),
     Uri("file", "", PWS), Uri("file", "host", PR), Uri("https", "", PR)}

RootsResults ==
    {[kind |-> k, uri |-> Uri("file", "", PW)] : k \in {"err", "empty"}}
    \cup {[kind |-> "root", uri |-> u] : u \in RootUris}

\* peer.list_roots().await, parse_file_uri, and the write of the real id into
\* the project-id cell.
RootsReply(s, res) ==
    /\ pc[s] = "roots"
    /\ LET parsed == IF res.kind = "root" THEN parse_file_uri(res.uri) ELSE None IN
       IF parsed # None
       THEN /\ real_path' = [real_path EXCEPT ![s] = parsed[1]]
            /\ project_id' = [project_id EXCEPT ![s] = from_path(parsed[1])]
            /\ pc' = [pc EXCEPT ![s] =
                        IF from_path(parsed[1]) # initial_project_id(s)
                        THEN "rec_load" ELSE "same_id"]
       ELSE /\ pc' = [pc EXCEPT ![s] = "session"]
            /\ UNCHANGED <<real_path, project_id>>
    /\ UNCHANGED <<records, hello, project_path, record, found, reply, entries, filtered,
                   lastCheck, lastCall, reconciled, mgrVars, callVars>>
    /\ UNCHANGED <<lifeVars, descVars, auxVars>>

\* registry.load(&real_project_id) of the migration branch.
ReconcileLoad(s) ==
    /\ pc[s] = "rec_load"
    /\ LET r == load(records, real_project_id(s)) IN
       reconciled' = [reconciled EXCEPT ![s] =
           [valid   |-> FALSE,
            loaded  |-> r,
            initial |-> record[s],
            stored  |-> IF r # None
                        THEN [r[1] EXCEPT !.path = real_path[s]]
                        ELSE [ProjectRecord_new(real_project_id(s), real_path[s])
                                EXCEPT !.allowed_server_ids = record[s].allowed_server_ids,
                                       !.agent = record[s].agent]]]
    /\ pc' = [pc EXCEPT ![s] = "rec_store"]
    /\ UNCHANGED <<records, hello, project_path, record, found, real_path, project_id,
                   reply, entries, filtered, lastCheck, lastCall, mgrVars, callVars>>
    /\ UNCHANGED <<lifeVars, descVars, auxVars>>

\* registry.store of existing_record / new_record.
ReconcileStore(s) ==
    /\ pc[s] = "rec_store"
    /\ records' = store(records, reconciled[s].stored)
    /\ reconciled' = [reconciled EXCEPT ![s].valid = TRUE]
    /\ pc' = [pc EXCEPT ![s] =
                IF /\ initial_project_id(s) # real_project_id(s)
                   /\ starts_with(real_path[s], project_path[s])
                THEN "rec_delete" ELSE "session"]
    /\ UNCHANGED <<hello, project_path, record, found, real_path, project_id, reply,
                   entries, filtered, lastCheck, lastCall, mgrVars, callVars>>
    /\ UNCHANGED <<lifeVars, descVars, auxVars>>

\* A plausible slip: the initial record is left in place.
ReconcileDelete_Skipped(s) ==
    /\ pc[s] = "rec_delete"
    /\ records' = records
    /\ pc' = [pc EXCEPT ![s] = "session"]
    /\ UNCHANGED <<hello, project_path, record, found, real_path, project_id, reply,
                   entries, filtered, lastCheck, lastCall, reconciled, mgrVars, callVars>>
    /\ UNCHANGED <<lifeVars, descVars, auxVars>>

\* registry.delete(&initial_project_id); a missing record is an error that is
\* only logged.
ReconcileDelete(s) ==
    /\ pc[s] = "rec_delete"
    /\ records' = delete(records, initial_project_id(s))
    /\ pc' = [pc EXCEPT ![s] = "session"]
    /\ UNCHANGED <<hello, project_path, record, found, real_path, project_id, reply,
                   entries, filtered, lastCheck, lastCall, reconciled, mgrVars, callVars>>
    /\ UNCHANGED <<lifeVars, descVars, auxVars>>

\* The branch for real id = initial id: rewrite the path if it differs.
ReconcileSameId(s) ==
    /\ pc[s] = "same_id"
    /\ LET r == load(records, real_project_id(s)) IN
       records' = IF r # None /\ ~PathEq(r[1].path, real_path[s])
                  THEN store(records, [r[1] EXCEPT !.path = real_path[s]])
                  ELSE records
    /\ pc' = [pc EXCEPT ![s] = "session"]
    /\ UNCHANGED <<hello, project_path, record, found, real_path, project_id, reply,
                   entries, filtered, lastCheck, lastCall, reconciled, mgrVars, callVars>>
    /\ UNCHANGED <<lifeVars, descVars, auxVars>>


(***************************************************************************)
(* Host session over a quiescent Server Manager                            *)
(***************************************************************************)
\* The Host answers requests from the moment serve() has returned.
HostPcs == {"roots", "rec_load", "rec_store", "rec_delete", "same_id", "session"}

NoCall == [valid |-> FALSE, tool |-> "none", result |-> "none", named |-> None,
           forwarded |-> None]

CallResult(tool_name, result, named, forwarded) ==
    [valid |-> TRUE, tool |-> tool_name, result |-> result, named |-> named,
     forwarded |-> forwarded]

SpendOp(s) ==
    /\ budget.ops > 0
    /\ budget' = [budget EXCEPT !.ops = @ - 1]

\* tools/list: manager.list_tools() returns a clone of the cache.
HostListTools(s) ==
    /\ pc[s] \in HostPcs
    /\ entries[s] = None
    /\ SpendOp(s)
    /\ entries' = [entries EXCEPT ![s] = IF tool_cache = <<>> THEN None ELSE Some(tool_cache)]
    /\ filtered' = [filtered EXCEPT ![s] = <<>>]
    /\ lastCheck' = [lastCheck EXCEPT ![s] = NoCheck]
    /\ UNCHANGED <<records, pc, hello, project_path, record, found, real_path, project_id,
                   reply, lastCall, reconciled, mgrVars, cpc, cop, fresh>>
    /\ UNCHANGED <<lifeVars, descVars, auxVars>>

\* tools/list: one turn of the filter loop.
HostListStep(s) ==
    /\ pc[s] \in HostPcs
    /\ entries[s] # None
    /\ LET entry == Head(entries[s][1])
           rest  == Tail(entries[s][1])
           chk   == Check(s, "list", entry.tool, entry.server_id)
       IN  /\ lastCheck' = [lastCheck EXCEPT ![s] = chk]
           /\ filtered' = [filtered EXCEPT ![s] =
                             IF chk.allowed THEN Append(@, entry.tool) ELSE @]
           /\ entries' = [entries EXCEPT ![s] = IF rest = <<>> THEN None ELSE Some(rest)]
    /\ UNCHANGED <<records, pc, hello, project_path, record, found, real_path, project_id,
                   reply, lastCall, reconciled, mgrVars, callVars>>
    /\ UNCHANGED <<lifeVars, descVars, auxVars>>

\* tools/call: get_server_for_tool, is_tool_allowed, manager.call_tool.
HostCallTool(s, tool_name) ==
    /\ pc[s] \in HostPcs
    /\ SpendOp(s)
    /\ LET owner == index_get(tool_name) IN
       IF owner # None
       THEN LET chk == Check(s, "call", tool_name, owner[1]) IN
            /\ lastCheck' = [lastCheck EXCEPT ![s] = chk]
            /\ lastCall' = [lastCall EXCEPT ![s] =
                  IF ~chk.allowed
                  THEN CallResult(tool_name, "InvalidParams", Some(<<tool_name, owner[1]>>), None)
                  ELSE IF owner[1] \in servers
                       THEN CallResult(tool_name, "Ok", None, owner)
                       ELSE CallResult(tool_name, "Internal", None, None)]
       ELSE /\ lastCall' = [lastCall EXCEPT ![s] =
                  CallResult(tool_name, "MethodNotFound", None, None)]
            /\ lastCheck' = [lastCheck EXCEPT ![s] = NoCheck]
    /\ UNCHANGED <<records, pc, hello, project_path, record, found, real_path, project_id,
                   reply, entries, filtered, reconciled, mgrVars, cpc, cop, fresh>>
    /\ UNCHANGED <<lifeVars, descVars, auxVars>>

(***************************************************************************)
(* Specification of the control plane                                      *)
(***************************************************************************)
\* The tool lists an upstream offers, by version; a change moves to the next.
Catalog == [a |-> <<<<"t1", "t2">>, <<"t2">>, <<"t1", "t2">>>>,
            b |-> <<<<"t3">>, <<"t3", "t1">>, <<"t3">>>>]

ToolsOf(server_id, ver) ==
    Catalog[server_id][((ver) % Len(Catalog[server_id])) + 1]

UpstreamTools == [x \in ServerIds |-> ToolsOf(x, 0)]

\* The registry as an operator may have left it: a record for /w, for /w/repo,
\* both or none.
InitRegistries ==
    { [i \in ids |-> WithPolicy(ProjectRecord_new(i,
                         PathTable[CHOOSE k \in 1..Len(PathTable) : IdTable[k] = i]),
                         IF i = from_path(PW) THEN pw ELSE pr)] :
        ids \in SUBSET {from_path(PW), from_path(PR)},
        pw \in OperatorPolicies,
        pr \in {Policy(<<"b">>, EmptyMap, <<>>)} }

InitOrders == {<<"a", "b">>, <<"b">>}

ZeroVersions == [x \in ServerIds |-> 0]

\* A caller of the Server Manager: what it runs and the locals of
\* ensure_tool_cache / force_refresh_tool_cache.
IdleOp == [kind |-> "none", tool |-> "none", phase |-> "none", todo |-> <<>>,
           acc |-> EmptyCache, fetched |-> 0, vers |-> ZeroVersions,
           need |-> ZeroVersions, stale |-> FALSE, refreshed |-> FALSE]

InitCallers ==
    /\ cpc = [s \in Sessions |-> "idle"]
    /\ cop = [s \in Sessions |-> IdleOp]
    /\ fresh = [raised |-> ZeroVersions, index |-> ZeroVersions, cache |-> ZeroVersions]
    /\ budget = [ops |-> MaxOps, changes |-> MaxChanges,
                 failures |-> MaxFailures]

InitSessions ==
    /\ pc = [s \in Sessions |-> "accept"]
    /\ hello = [s \in Sessions |-> NoLine]
    /\ project_path = [s \in Sessions |-> PW]
    /\ record = [s \in Sessions |-> NoRecord]
    /\ found = [s \in Sessions |-> FALSE]
    /\ real_path = [s \in Sessions |-> PW]
    /\ project_id = [s \in Sessions |-> "none"]
    /\ reply = [s \in Sessions |-> <<>>]
    /\ entries = [s \in Sessions |-> None]
    /\ filtered = [s \in Sessions |-> <<>>]
    /\ lastCheck = [s \in Sessions |-> NoCheck]
    /\ lastCall = [s \in Sessions |-> NoCall]
    /\ reconciled = [s \in Sessions |-> NoReconcile]

\* Definition ids in the order list_server_configs sorts them (no display
\* names are set, so the ids decide).
SortedIds == <<"a", "b">>

\* ManagedServer.runtime: no instance, or a spawned local process with its
\* connection and pid file.
NoRuntime == [client |-> "none", pid_file |-> FALSE, launches |-> 0]
UpRuntime == [client |-> "up", pid_file |-> TRUE, launches |-> 1]

StartResult(status, cause, launched) ==
    [status |-> status, cause |-> cause, launched |-> launched]

NoOp == [op |-> "none", arg |-> "none", result |-> "none", forwarded |-> None,
         owner |-> None, owner_up |-> FALSE, refreshed |-> FALSE, answer |-> "none",
         affected |-> {}]

NoDeco == [description |-> None, server_name |-> "none", server_id |-> "none",
           original |-> None, once |-> None, applied |-> 0]

\* The daemon has started with the definitions of `order` enabled and running.
InitLife(order) ==
    /\ defs = [x \in ServerIds |-> IF Contains(order, x) THEN "enabled" ELSE "absent"]
    /\ runtime = [x \in ServerIds |-> IF Contains(order, x) THEN UpRuntime ELSE NoRuntime]
    /\ started = StartResult("ok", "none", SeqToSet(order))
    /\ inserted = SelectSeq(SortedIds, LAMBDA x : Contains(order, x))
    /\ mop = NoOp

\* ProjectCache::default and the fingerprints a cache may hold.
Missing == [kind |-> "Missing", entries |-> EmptyMap]

Unknown == [kind |-> "Unknown", entries |-> EmptyMap]

Known(files) == [kind |-> "Known", entries |-> files]

ProjectCache_default ==
    [records_by_id |-> EmptyMap, path_index |-> EmptyMap, fingerprint |-> Missing,
     loaded |-> FALSE]

RegTasks == {"k1", "k2"}

IdleTask == [pc |-> "idle", rec |-> None, id |-> "none"]

NoRegOp == [task |-> "none", op |-> "none", arg |-> None, result |-> "none",
            answer |-> None, rescanned |-> FALSE]

\* An empty projects directory and a registry that has not read it yet.
InitRegistryIdle ==
    /\ disk = [i \in ProjectIds |-> None]
    /\ rcache = ProjectCache_default
    /\ clock = 1
    /\ rpc = [k \in RegTasks |-> IdleTask]
    /\ rop = NoRegOp

Daemons == {"d1", "d2"}
BridgeProcs == {"b1", "b2"}
Creators == {"c1", "c2"}

NoCreate == [pc |-> "idle", name |-> <<>>, id |-> 0]
NoDefOp == [by |-> "none", op |-> "none", result |-> "none"]

\* No daemon and no bridge of this root is running, and there is no socket
\* file.
InitControlIdle ==
    /\ sockfile = None
    /\ dpc = [d \in Daemons |-> "off"]
    /\ bpc = [b \in BridgeProcs |-> "start"]
    /\ bspawned = [b \in BridgeProcs |-> <<>>]
    /\ bticks = [b \in BridgeProcs |-> 0]
    /\ bconn = [b \in BridgeProcs |-> "none"]

\* Layout::ensure on a new root: an empty servers directory.
InitFilesIdle ==
    /\ dfiles = {}
    /\ creating = [c \in Creators |-> NoCreate]
    /\ dop = NoDefOp

\* No definition is under validation.
InitValidateIdle ==
    /\ vdef = [name |-> None, protocol |-> "stdio", command |-> <<>>, endpoint |-> None]
    /\ vres = "none"

\* No registry access is inside refresh_cache.
NoRefresh == [pc |-> "idle", attempts |-> 0, snapshot |-> None, last |-> "none"]

EnsureTasks == {"h1", "h2"}

\* No enable request is under way; no process has been spawned.
NoEnsure ==
    [pc |-> [k \in EnsureTasks |-> "idle"], proc |-> [k \in EnsureTasks |-> 0],
     calls |-> [k \in EnsureTasks |-> 0], result |-> [k \in EnsureTasks |-> "none"],
     next |-> 1, held |-> 0, pidfile |-> 0, live |-> {}, replaced |-> {}]

\* tunnel_stdio has split the stream and spawned its two tasks; nothing has
\* been read.  Requests and responses are counted, not spelled out.
NewTunnel ==
    [stdin |-> 0, closed |-> FALSE, written |-> 0, upstream |-> "run", c2d |-> 0,
     wshut |-> FALSE, forwarded |-> 0, d2c |-> 0, dclosed |-> FALSE, out |-> 0,
     downstream |-> "run", bridge |-> "run", cause |-> "none"]

InitMoreIdle == er = NoEnsure /\ tn = NewTunnel

InitExtraIdle == InitValidateIdle /\ rf = NoRefresh /\ InitMoreIdle

InitAdmin == InitControlIdle /\ InitFilesIdle /\ InitExtraIdle

InitAux == InitRegistryIdle /\ InitAdmin

\* Cached tools without a description.
NoDescriptions == [x \in ServerIds |-> [t \in ToolNames |-> None]]

InitDesc ==
    /\ deco = NoDeco
    /\ tool_desc = NoDescriptions
    /\ surfaced = [s \in Sessions |-> None]

\* ServerManager::start has launched the servers and filled the cache.
InitManager(order) ==
    /\ iterOrder = order
    /\ servers = SeqToSet(order)
    /\ upstream = ZeroVersions
    /\ notif = ZeroVersions
    /\ needs_refresh = [x \in ServerIds |-> FALSE]
    /\ srv_tools = [x \in ServerIds |-> IF Contains(order, x) THEN UpstreamTools[x] ELSE <<>>]
    /\ LET c == RefreshAll(EmptyCache, order, UpstreamTools) IN
       /\ tool_index = c.index
       /\ tool_cache = c.entries

Init ==
    /\ records \in InitRegistries
    /\ InitSessions
    /\ \E order \in InitOrders : InitManager(order) /\ InitLife(order)
    /\ InitCallers
    /\ InitDesc
    /\ InitAux

Next ==
    \E s \in Bridges :
        \/ \E line \in Lines, ok \in BOOLEAN : ReadHandshake(s, line, ok)
        \/ HandshakeLoad(s)
        \/ HandshakeStore(s)
        \/ \E ok \in BOOLEAN : McpServe(s, ok)
        \/ \E res \in RootsResults : RootsReply(s, res)
        \/ ReconcileLoad(s)
        \/ ReconcileStore(s)
        \/ ReconcileDelete(s)
        \/ ReconcileSameId(s)
        \/ HostListTools(s)
        \/ HostListStep(s)
        \/ \E t \in ToolNames : HostCallTool(s, t)

Spec == Init /\ [][Next]_vars

(***************************************************************************)
(* Server Manager: the tool cache, step by step                            *)
(*                                                                         *)
(* Callers are tasks of the multi-thread runtime running                   *)
(* ServerManager::list_tools or HostService::call_tool.  Every await of    *)
(* ensure_tool_cache / force_refresh_tool_cache / refresh_tools is a step, *)
(* so that other callers and upstream notifications interleave as they do  *)
(* in the daemon.                                                          *)
(***************************************************************************)
Callers == Sessions

OpKinds == {"list", "call"}

\* How an operation ends when ensure_tool_cache returns Err.
\*   list_tools: the error is returned.
\*   Host call_tool, get_server_for_tool: `if let Ok(..)` drops the error, the
\*     permission check is skipped and manager.call_tool runs.
\*   manager.call_tool: the error is returned (Internal).
RefreshFailed(c) ==
    IF cop[c].kind = "call" /\ cop[c].phase = "lookup"
    THEN /\ cop' = [cop EXCEPT ![c].phase = "dispatch", ![c].todo = <<>>,
                               ![c].acc = EmptyCache]
         /\ cpc' = [cpc EXCEPT ![c] = "flags"]
         /\ UNCHANGED lastCall
    ELSE /\ cop' = [cop EXCEPT ![c].todo = <<>>, ![c].acc = EmptyCache]
         /\ cpc' = [cpc EXCEPT ![c] = "idle"]
         /\ lastCall' = [lastCall EXCEPT ![c] =
                IF cop[c].kind = "call"
                THEN CallResult(cop[c].tool, "Internal", None, None)
                ELSE CallResult("none", "ListFailed", None, None)]

\* A task enters list_tools or Host call_tool.
CallerBegin(c, kind, tool_name) ==
    /\ cpc[c] = "idle"
    /\ SpendOp(c)
    /\ cop' = [cop EXCEPT ![c] =
          [IdleOp EXCEPT !.kind = kind,
                         !.tool = IF kind = "call" THEN tool_name ELSE "none",
                         !.phase = IF kind = "call" THEN "lookup" ELSE "list",
                         !.need = fresh.raised]]
    /\ cpc' = [cpc EXCEPT ![c] = "flags"]
    /\ lastCall' = [lastCall EXCEPT ![c] = NoCall]
    /\ lastCheck' = [lastCheck EXCEPT ![c] = NoCheck]
    /\ UNCHANGED <<records, pc, hello, project_path, record, found, real_path, project_id,
                   reply, entries, filtered, reconciled, mgrVars, fresh>>
    /\ UNCHANGED <<lifeVars, descVars, auxVars>>

\* ensure_tool_cache: does any server have its needs_refresh flag set?
EnsureFlags(c) ==
    /\ cpc[c] = "flags"
    /\ cpc' = [cpc EXCEPT ![c] =
          IF \E x \in servers : needs_refresh[x] THEN "snapshot" ELSE "empty"]
    /\ UNCHANGED <<records, sessVars, mgrVars, cop, fresh, budget>>
    /\ UNCHANGED <<lifeVars, descVars, auxVars>>

\* ensure_tool_cache: is the cache empty?
EnsureEmpty(c) ==
    /\ cpc[c] = "empty"
    /\ cpc' = [cpc EXCEPT ![c] = IF tool_cache = <<>> THEN "snapshot" ELSE "read"]
    /\ UNCHANGED <<records, sessVars, mgrVars, cop, fresh, budget>>
    /\ UNCHANGED <<lifeVars, descVars, auxVars>>

\* force_refresh_tool_cache: the iterator over the servers and fresh locals.
RefreshSnapshot(c) ==
    /\ cpc[c] = "snapshot"
    /\ cop' = [cop EXCEPT ![c].todo = list_server_ids, ![c].acc = EmptyCache,
                          ![c].vers = ZeroVersions, ![c].refreshed = TRUE]
    /\ cpc' = [cpc EXCEPT ![c] =
          IF list_server_ids = <<>> THEN "install_index" ELSE "fetch"]
    /\ UNCHANGED <<records, sessVars, mgrVars, fresh, budget>>
    /\ UNCHANGED <<lifeVars, descVars, auxVars>>

\* refresh_tools: service.list_all_tools() against the upstream.  It returns
\* what the upstream offers now, or fails.
RefreshFetch(c, ok) ==
    /\ cpc[c] = "fetch"
    /\ IF ok
       THEN /\ cop' = [cop EXCEPT ![c].fetched = upstream[Head(cop[c].todo)]]
            /\ cpc' = [cpc EXCEPT ![c] = "commit"]
            /\ UNCHANGED <<budget, lastCall>>
       ELSE /\ budget.failures > 0
            /\ budget' = [budget EXCEPT !.failures = @ - 1]
            /\ RefreshFailed(c)
    /\ UNCHANGED <<records, pc, hello, project_path, record, found, real_path, project_id,
                   reply, entries, filtered, lastCheck, reconciled, mgrVars, fresh>>
    /\ UNCHANGED <<lifeVars, descVars, auxVars>>

\* refresh_tools after the await: the server's own list is replaced and the
\* needs_refresh flag is cleared; force_refresh_tool_cache adds the tools to
\* its locals (a later server overwrites an equal name in the map).
RefreshCommit(c) ==
    /\ cpc[c] = "commit"
    /\ LET x     == Head(cop[c].todo)
           tools == ToolsOf(x, cop[c].fetched)
       IN  /\ srv_tools' = [srv_tools EXCEPT ![x] = tools]
           /\ needs_refresh' = [needs_refresh EXCEPT ![x] = FALSE]
           /\ cop' = [cop EXCEPT ![c].todo = Tail(@),
                                 ![c].acc = AddTools(@, x, tools),
                                 ![c].vers = [@ EXCEPT ![x] = cop[c].fetched]]
           /\ cpc' = [cpc EXCEPT ![c] =
                 IF Tail(cop[c].todo) = <<>> THEN "install_index" ELSE "fetch"]
    /\ UNCHANGED <<records, sessVars, servers, iterOrder, upstream, notif, tool_index,
                   tool_cache, fresh, budget>>
    /\ UNCHANGED <<lifeVars, descVars, auxVars>>

\* force_refresh_tool_cache: *self.tool_index.write().await = new_index
InstallIndex(c) ==
    /\ cpc[c] = "install_index"
    /\ tool_index' = cop[c].acc.index
    /\ fresh' = [fresh EXCEPT !.index = cop[c].vers]
    /\ cpc' = [cpc EXCEPT ![c] = "install_cache"]
    /\ UNCHANGED <<records, sessVars, servers, iterOrder, upstream, notif, needs_refresh,
                   srv_tools, tool_cache, cop, budget>>
    /\ UNCHANGED <<lifeVars, descVars, auxVars>>

\* force_refresh_tool_cache: *self.tool_cache.write().await = new_entries
InstallCache(c) ==
    /\ cpc[c] = "install_cache"
    /\ tool_cache' = cop[c].acc.entries
    /\ fresh' = [fresh EXCEPT !.cache = cop[c].vers]
    /\ cpc' = [cpc EXCEPT ![c] = "read"]
    /\ UNCHANGED <<records, sessVars, servers, iterOrder, upstream, notif, needs_refresh,
                   srv_tools, tool_index, cop, budget>>
    /\ UNCHANGED <<lifeVars, descVars, auxVars>>

\* Does the structure a caller reads hold, for every server, data at least as
\* new as the notifications raised before the caller began?
Stale(c, held) == \E x \in servers : held[x] < cop[c].need[x]

\* ServerManager::list_tools after ensure_tool_cache: a clone of the cache.
ReadList(c) ==
    /\ cpc[c] = "read"
    /\ cop[c].kind = "list"
    /\ cop' = [cop EXCEPT ![c].stale = Stale(c, fresh.cache)]
    /\ cpc' = [cpc EXCEPT ![c] = "idle"]
    /\ lastCall' = [lastCall EXCEPT ![c] = CallResult("none", "Listed", None, None)]
    /\ UNCHANGED <<records, pc, hello, project_path, record, found, real_path, project_id,
                   reply, entries, filtered, lastCheck, reconciled, mgrVars, fresh, budget>>
    /\ UNCHANGED <<lifeVars, descVars, auxVars>>

\* Host call_tool, first half: get_server_for_tool reads the map, then
\* is_tool_allowed decides.  A tool missing from the map is an Err, and an Err
\* skips the permission check.
ReadLookup(c) ==
    /\ cpc[c] = "read"
    /\ cop[c].kind = "call"
    /\ cop[c].phase = "lookup"
    /\ LET owner == index_get(cop[c].tool) IN
       IF owner # None /\ ~is_tool_allowed(c, cop[c].tool, owner[1])
       THEN /\ lastCheck' = [lastCheck EXCEPT ![c] = Check(c, "call", cop[c].tool, owner[1])]
            /\ lastCall' = [lastCall EXCEPT ![c] =
                  CallResult(cop[c].tool, "InvalidParams",
                             Some(<<cop[c].tool, owner[1]>>), None)]
            /\ cop' = [cop EXCEPT ![c].stale = Stale(c, fresh.index)]
            /\ cpc' = [cpc EXCEPT ![c] = "idle"]
       ELSE /\ lastCheck' = [lastCheck EXCEPT ![c] =
                  IF owner # None THEN Check(c, "call", cop[c].tool, owner[1])
                  ELSE NoCheck]
            /\ cop' = [cop EXCEPT ![c].phase = "dispatch"]
            /\ cpc' = [cpc EXCEPT ![c] = "flags"]
            /\ UNCHANGED lastCall
    /\ UNCHANGED <<records, pc, hello, project_path, record, found, real_path, project_id,
                   reply, entries, filtered, reconciled, mgrVars, fresh, budget>>
    /\ UNCHANGED <<lifeVars, descVars, auxVars>>

\* Host call_tool, second half: ServerManager::call_tool reads the map again
\* and forwards to the server it names.
ReadDispatch(c) ==
    /\ cpc[c] = "read"
    /\ cop[c].kind = "call"
    /\ cop[c].phase = "dispatch"
    /\ LET owner == index_get(cop[c].tool) IN
       lastCall' = [lastCall EXCEPT ![c] =
          IF owner = None
          THEN CallResult(cop[c].tool, "MethodNotFound", None, None)
          ELSE IF owner[1] \in servers
               THEN CallResult(cop[c].tool, "Ok", None, owner)
               ELSE CallResult(cop[c].tool, "Internal", None, None)]
    /\ cop' = [cop EXCEPT ![c].stale = Stale(c, fresh.index)]
    /\ cpc' = [cpc EXCEPT ![c] = "idle"]
    /\ UNCHANGED <<records, pc, hello, project_path, record, found, real_path, project_id,
                   reply, entries, filtered, lastCheck, reconciled, mgrVars, fresh, budget>>
    /\ UNCHANGED <<lifeVars, descVars, auxVars>>

\* An upstream changes the tools it offers and sends tools/list_changed.
UpstreamChange(x) ==
    /\ x \in servers
    /\ budget.changes > 0
    /\ budget' = [budget EXCEPT !.changes = @ - 1]
    /\ upstream' = [upstream EXCEPT ![x] = @ + 1]
    /\ notif' = [notif EXCEPT ![x] = upstream[x] + 1]
    /\ UNCHANGED <<records, sessVars, servers, iterOrder, needs_refresh, srv_tools,
                   tool_index, tool_cache, cpc, cop, fresh>>
    /\ UNCHANGED <<lifeVars, descVars, auxVars>>

\* ServerAdapter::handle_notification, ToolListChangedNotification.
HandleNotification(x) ==
    /\ notif[x] > 0
    /\ needs_refresh' = [needs_refresh EXCEPT ![x] = TRUE]
    /\ fresh' = [fresh EXCEPT !.raised[x] = notif[x]]
    /\ notif' = [notif EXCEPT ![x] = 0]
    /\ UNCHANGED <<records, sessVars, servers, iterOrder, upstream, srv_tools,
                   tool_index, tool_cache, cpc, cop, budget>>
    /\ UNCHANGED <<lifeVars, descVars, auxVars>>

(***************************************************************************)
(* Specification of the tool cache                                         *)
(***************************************************************************)
\* Session s1 serves project /w, where server a offers everything but t1 and
\* server b nothing; session s2 serves /w/repo, which has no record.
CacheRegistry ==
    store(EmptyMap,
          WithPolicy(ProjectRecord_new(from_path(PW), PW),
                     Policy(<<"a">>, [x \in {"a"} |-> DenyList(<<"t1">>)], <<>>)))

CacheOrders == {<<"a", "b">>, <<"b", "a">>}

\* Both sessions have finished their handshake and reconciliation.
InitCacheSessions ==
    /\ pc = [s \in Sessions |-> "session"]
    /\ hello = [s \in Sessions |-> NoLine]
    /\ project_path = [s \in Sessions |-> IF s = "s1" THEN PW ELSE PR]
    /\ record = [s \in Sessions |-> NoRecord]
    /\ found = [s \in Sessions |-> FALSE]
    /\ real_path = [s \in Sessions |-> IF s = "s1" THEN PW ELSE PR]
    /\ project_id = [s \in Sessions |-> IF s = "s1" THEN from_path(PW) ELSE from_path(PR)]
    /\ reply = [s \in Sessions |-> <<>>]
    /\ entries = [s \in Sessions |-> None]
    /\ filtered = [s \in Sessions |-> <<>>]
    /\ lastCheck = [s \in Sessions |-> NoCheck]
    /\ lastCall = [s \in Sessions |-> NoCall]
    /\ reconciled = [s \in Sessions |-> NoReconcile]

InitCache ==
    /\ records = CacheRegistry
    /\ InitCacheSessions
    /\ \E order \in CacheOrders : InitManager(order) /\ InitLife(order)
    /\ InitCallers
    /\ InitDesc
    /\ InitAux

NextCache ==
    \/ \E c \in Callers :
        \/ \E k \in OpKinds, t \in ToolNames : CallerBegin(c, k, t)
        \/ EnsureFlags(c)
        \/ EnsureEmpty(c)
        \/ RefreshSnapshot(c)
        \/ \E ok \in BOOLEAN : RefreshFetch(c, ok)
        \/ RefreshCommit(c)
        \/ InstallIndex(c)
        \/ InstallCache(c)
        \/ ReadList(c)
        \/ ReadLookup(c)
        \/ ReadDispatch(c)
    \/ \E x \in ServerIds :
        \/ UpstreamChange(x)
        \/ HandleNotification(x)

SpecCache == InitCache /\ [][NextCache]_vars


(***************************************************************************)
(* Server Manager: lifecycle (start, ensure_server_running, disable_server)*)
(* and the operator's commands on definitions.  Each operation is one step;*)
(* the interleaving of concurrent refreshes is the subject of SpecCache.   *)
(***************************************************************************)
\* The orders in which a HashMap holding the keys S may iterate.
Orders(S) ==
    {o \in [1..Cardinality(S) -> S] : \A i, j \in 1..Cardinality(S) : o[i] = o[j] => i = j}

Without(seq, x) == SelectSeq(seq, LAMBDA y : y # x)

\* Listings that fail transiently in one refresh: none, or one server's.
Transients == {{}} \cup {{x} : x \in ServerIds}

\* refresh_tools fails for a server whose connection is gone, or transiently.
Failing(rt, transient) == {x \in ServerIds : rt[x].client # "up"} \cup transient

\* force_refresh_tool_cache over the servers in `order`: the `?` on
\* refresh_tools stops at the first server whose listing fails; the servers
\* before it have their own list replaced and their flag cleared.
RefreshResult(order, failing) ==
    LET bad  == {i \in 1..Len(order) : order[i] \in failing}
        k    == IF bad = {} THEN 0 ELSE CHOOSE i \in bad : \A j \in bad : i <= j
        done == IF k = 0 THEN order ELSE SubSeq(order, 1, k - 1)
    IN  [ok    |-> k = 0,
         done  |-> SeqToSet(done),
         cache |-> RefreshAll(EmptyCache, order,
                              [x \in ServerIds |-> ToolsOf(x, upstream[x])])]

\* The effect of a refresh with result r on the manager, `flags` being the
\* needs_refresh flags it started from.
ApplyRefresh(r, flags) ==
    /\ srv_tools' = [x \in ServerIds |->
                        IF x \in r.done THEN ToolsOf(x, upstream[x]) ELSE srv_tools[x]]
    /\ needs_refresh' = [x \in ServerIds |-> IF x \in r.done THEN FALSE ELSE flags[x]]
    /\ tool_index' = IF r.ok THEN r.cache.index ELSE tool_index
    /\ tool_cache' = IF r.ok THEN r.cache.entries ELSE tool_cache

\* ensure_tool_cache: is a refresh due?
RefreshDue == (\E x \in servers : needs_refresh[x]) \/ tool_cache = <<>>

\* One operation on the manager, in which `failures` things go wrong.
Spend(failures) ==
    /\ budget.ops > 0
    /\ budget.failures >= failures
    /\ budget' = [budget EXCEPT !.ops = @ - 1, !.failures = @ - failures]

SpendOpWith(transient) == Spend(Cardinality(transient))

\* ServerManager::start: launch every enabled definition, then refresh.  The
\* `?` on launch and on the refresh ends start with the error.
MgrStart(launch_fail, order, transient) ==
    /\ started.status = "no"
    /\ LET enabled == SelectSeq(SortedIds, LAMBDA x : defs[x] = "enabled")
           bad     == {i \in 1..Len(enabled) : enabled[i] \in launch_fail}
           k       == IF bad = {} THEN 0 ELSE CHOOSE i \in bad : \A j \in bad : i <= j
           r       == RefreshResult(order, transient)
       IN
       /\ launch_fail \subseteq SeqToSet(enabled)
       /\ Cardinality(launch_fail) + Cardinality(transient) <= budget.failures
       /\ budget' = [budget EXCEPT
                        !.failures = @ - Cardinality(launch_fail) - Cardinality(transient)]
       /\ IF k # 0
          THEN /\ transient = {}
               /\ order = enabled
               /\ started' = StartResult("failed", "launch",
                                         SeqToSet(enabled) \ launch_fail)
               /\ UNCHANGED <<servers, iterOrder, inserted, runtime, needs_refresh,
                              srv_tools, tool_index, tool_cache>>
          ELSE /\ order \in Orders(SeqToSet(enabled))
               /\ transient \subseteq SeqToSet(enabled)
               /\ IF r.ok
                  THEN /\ started' = StartResult("ok", "none", SeqToSet(enabled))
                       /\ servers' = SeqToSet(enabled)
                       /\ iterOrder' = order
                       /\ inserted' = enabled
                       /\ runtime' = [x \in ServerIds |->
                                         IF x \in SeqToSet(enabled) THEN UpRuntime
                                         ELSE runtime[x]]
                       /\ ApplyRefresh(r, [x \in ServerIds |-> x \in SeqToSet(enabled)])
                  ELSE /\ started' = StartResult("failed", "refresh", SeqToSet(enabled))
                       /\ UNCHANGED <<servers, iterOrder, inserted, runtime, needs_refresh,
                                      srv_tools, tool_index, tool_cache>>
    /\ UNCHANGED <<records, sessVars, upstream, notif, cpc, cop, fresh, defs, mop, descVars,
                   auxVars>>

\* ServerManager::list_tools: ensure_tool_cache, then a clone of the cache.
MgrListTools(transient) ==
    /\ started.status = "ok"
    /\ SpendOpWith(transient)
    /\ IF RefreshDue
       THEN LET r == RefreshResult(list_server_ids, Failing(runtime, transient)) IN
            /\ transient \subseteq servers
            /\ ApplyRefresh(r, needs_refresh)
            /\ mop' = [NoOp EXCEPT !.op = "list",
                                   !.result = IF r.ok THEN "Ok" ELSE "Err",
                                   !.refreshed = r.ok,
                                   !.affected = Failing(runtime, transient) \cap servers]
       ELSE /\ transient = {}
            /\ mop' = [NoOp EXCEPT !.op = "list", !.result = "Ok",
                                   !.affected = Failing(runtime, {}) \cap servers]
            /\ UNCHANGED <<srv_tools, needs_refresh, tool_index, tool_cache>>
    /\ UNCHANGED <<records, sessVars, servers, iterOrder, upstream, notif, cpc, cop, fresh,
                   defs, runtime, started, inserted, descVars, auxVars>>

\* What an upstream answers to a forwarded call: a result, possibly with
\* is_error set.
UpstreamResults == {"Ok", "ToolError"}

\* ServerManager::call_tool: ensure_tool_cache, the map lookup, the servers
\* lookup, and the forwarded call.
MgrCallTool(tool_name, transient, answer) ==
    /\ started.status = "ok"
    /\ SpendOpWith(transient)
    /\ LET r     == RefreshResult(list_server_ids, Failing(runtime, transient))
           index == IF RefreshDue /\ r.ok THEN r.cache.index ELSE tool_index
           owner == IF tool_name \in DOMAIN index THEN Some(index[tool_name]) ELSE None
           up    == owner # None /\ owner[1] \in servers /\ runtime[owner[1]].client = "up"
           call  == [NoOp EXCEPT !.op = "call", !.arg = tool_name, !.owner = owner,
                                 !.owner_up = up, !.refreshed = RefreshDue /\ r.ok,
                                 !.answer = answer,
                                 !.affected = Failing(runtime, transient) \cap servers]
       IN
       /\ IF RefreshDue
          THEN transient \subseteq servers /\ ApplyRefresh(r, needs_refresh)
          ELSE transient = {} /\ UNCHANGED <<srv_tools, needs_refresh, tool_index, tool_cache>>
       /\ mop' =
            IF RefreshDue /\ ~r.ok THEN [call EXCEPT !.result = "Internal"]
            ELSE IF owner = None THEN [call EXCEPT !.result = "MethodNotFound"]
            ELSE IF owner[1] \notin servers THEN [call EXCEPT !.result = "Internal"]
            ELSE IF ~up THEN [call EXCEPT !.result = "Internal", !.forwarded = owner]
            ELSE [call EXCEPT !.result = answer, !.forwarded = owner]
    /\ UNCHANGED <<records, sessVars, servers, iterOrder, upstream, notif, cpc, cop, fresh,
                   defs, runtime, started, inserted, descVars, auxVars>>

\* ManagedServer::launch of a local definition: a new process, connection and
\* pid file; the new server's needs_refresh flag is set.
Launched(id) == [client |-> "up", pid_file |-> TRUE, launches |-> runtime[id].launches + 1]

\* ManagedServer::shutdown: the connection is cancelled and the pid file removed.
Stopped(id) == [client |-> "none", pid_file |-> FALSE, launches |-> runtime[id].launches]

\* A variant of ensure_server_running without the contains_key early return: a
\* server already in the set is launched again and the cache refreshed.
ensure_server_running_NoCheck(id, launch_ok, order, transient) ==
    IF defs'[id] = "absent" \/ ~launch_ok
    THEN /\ mop' = [NoOp EXCEPT !.op = "ensure", !.arg = id, !.result = "Err"]
         /\ transient = {} /\ order = iterOrder
         /\ UNCHANGED <<servers, iterOrder, inserted, runtime, srv_tools, needs_refresh,
                        tool_index, tool_cache>>
    ELSE LET rt == [runtime EXCEPT ![id] = Launched(id)]
             r  == RefreshResult(order, Failing(rt, transient))
         IN  /\ order \in Orders(servers \cup {id})
             /\ IF id \in servers THEN order = iterOrder
                                  ELSE Without(order, id) = iterOrder
             /\ transient \subseteq servers \cup {id}
             /\ servers' = servers \cup {id}
             /\ iterOrder' = order
             /\ inserted' = IF id \in servers THEN inserted ELSE Append(inserted, id)
             /\ runtime' = rt
             /\ ApplyRefresh(r, [needs_refresh EXCEPT ![id] = TRUE])
             /\ mop' = [NoOp EXCEPT !.op = "ensure", !.arg = id,
                                    !.result = IF r.ok THEN "Ok(true)" ELSE "Err",
                                    !.refreshed = r.ok]

\* ServerManager::ensure_server_running.
ensure_server_running(id, launch_ok, order, transient) ==
    IF id \in servers
    THEN /\ mop' = [NoOp EXCEPT !.op = "ensure", !.arg = id, !.result = "Ok(false)"]
         /\ launch_ok /\ transient = {} /\ order = iterOrder
         /\ UNCHANGED <<servers, iterOrder, inserted, runtime, srv_tools, needs_refresh,
                        tool_index, tool_cache>>
    ELSE IF defs'[id] = "absent" \/ ~launch_ok
    THEN /\ mop' = [NoOp EXCEPT !.op = "ensure", !.arg = id, !.result = "Err"]
         /\ transient = {} /\ order = iterOrder
         /\ UNCHANGED <<servers, iterOrder, inserted, runtime, srv_tools, needs_refresh,
                        tool_index, tool_cache>>
    ELSE LET rt == [runtime EXCEPT ![id] = Launched(id)]
             r  == RefreshResult(order, Failing(rt, transient))
         IN  /\ order \in Orders(servers \cup {id})
             /\ Without(order, id) = iterOrder
             /\ transient \subseteq servers \cup {id}
             /\ servers' = servers \cup {id}
             /\ iterOrder' = order
             /\ inserted' = Append(inserted, id)
             /\ runtime' = rt
             /\ ApplyRefresh(r, [needs_refresh EXCEPT ![id] = TRUE])
             /\ mop' = [NoOp EXCEPT !.op = "ensure", !.arg = id,
                                    !.result = IF r.ok THEN "Ok(true)" ELSE "Err",
                                    !.refreshed = r.ok]

\* ServerManager::disable_server.
disable_server(id, transient) ==
    IF id \notin servers
    THEN /\ mop' = [NoOp EXCEPT !.op = "disable", !.arg = id, !.result = "Ok(false)"]
         /\ transient = {}
         /\ UNCHANGED <<servers, iterOrder, inserted, runtime, srv_tools, needs_refresh,
                        tool_index, tool_cache>>
    ELSE LET rt == [runtime EXCEPT ![id] = Stopped(id)]
             r  == RefreshResult(Without(iterOrder, id), Failing(rt, transient))
         IN  /\ transient \subseteq servers \ {id}
             /\ servers' = servers \ {id}
             /\ iterOrder' = Without(iterOrder, id)
             /\ inserted' = Without(inserted, id)
             /\ runtime' = rt
             /\ ApplyRefresh(r, needs_refresh)
             /\ mop' = [NoOp EXCEPT !.op = "disable", !.arg = id,
                                    !.result = IF r.ok THEN "Ok(true)" ELSE "Err",
                                    !.refreshed = r.ok]

\* HTTP update_mcp_enabled: load the definition, write the flag, then
\* ensure_server_running or disable_server (an error is only a warning).
HttpUpdateEnabled(id, enabled, launch_ok, order, transient) ==
    /\ started.status = "ok"
    /\ defs[id] # "absent"
    /\ Spend(Cardinality(transient) + IF launch_ok THEN 0 ELSE 1)
    /\ defs' = [defs EXCEPT ![id] = IF enabled THEN "enabled" ELSE "disabled"]
    /\ IF enabled
       THEN ensure_server_running(id, launch_ok, order, transient)
       ELSE launch_ok /\ order = iterOrder /\ disable_server(id, transient)
    /\ UNCHANGED <<records, sessVars, upstream, notif, cpc, cop, fresh, started, descVars,
                   auxVars>>

\* HTTP delete_mcp: disable_server (an error is only a warning), then the
\* definition file is removed.
HttpDelete(id, transient) ==
    /\ started.status = "ok"
    /\ defs[id] # "absent"
    /\ SpendOpWith(transient)
    /\ disable_server(id, transient)
    /\ defs' = [defs EXCEPT ![id] = "absent"]
    /\ UNCHANGED <<records, sessVars, upstream, notif, cpc, cop, fresh, started, descVars,
                   auxVars>>

\* CLI `mcp remove`: the definition file is removed; the daemon is not told.
CliRemove(id) ==
    /\ defs[id] # "absent"
    /\ Spend(0)
    /\ defs' = [defs EXCEPT ![id] = "absent"]
    /\ mop' = [NoOp EXCEPT !.op = "cli", !.arg = id]
    /\ UNCHANGED <<records, sessVars, mgrVars, cpc, cop, fresh, runtime, started, inserted,
                   descVars, auxVars>>

\* CLI `mcp enable` / `mcp disable`: the flag is rewritten in the file.
CliSetEnabled(id, enabled) ==
    /\ defs[id] = IF enabled THEN "disabled" ELSE "enabled"
    /\ Spend(0)
    /\ defs' = [defs EXCEPT ![id] = IF enabled THEN "enabled" ELSE "disabled"]
    /\ mop' = [NoOp EXCEPT !.op = "cli", !.arg = id]
    /\ UNCHANGED <<records, sessVars, mgrVars, cpc, cop, fresh, runtime, started, inserted,
                   descVars, auxVars>>

\* The connection of a running upstream fails (the process dies, the remote
\* endpoint goes away); the ManagedServer stays in the set.
ConnectionLost(x) ==
    /\ x \in servers
    /\ runtime[x].client = "up"
    /\ budget.ops > 0
    /\ budget.failures > 0
    /\ budget' = [budget EXCEPT !.failures = @ - 1]
    /\ runtime' = [runtime EXCEPT ![x].client = "failed"]
    /\ UNCHANGED <<records, sessVars, mgrVars, cpc, cop, fresh, defs, started, inserted, mop,
                   descVars, auxVars>>

\* An upstream's tool list changes and its tools/list_changed notification is
\* handled by the ServerAdapter, which raises the server's needs_refresh flag.
\* The event counts among the operations of a run.
ToolListChanged(x) ==
    /\ x \in servers
    /\ budget.ops > 0
    /\ budget.changes > 0
    /\ budget' = [budget EXCEPT !.ops = @ - 1, !.changes = @ - 1]
    /\ upstream' = [upstream EXCEPT ![x] = @ + 1]
    /\ needs_refresh' = [needs_refresh EXCEPT ![x] = TRUE]
    /\ UNCHANGED <<records, sessVars, servers, iterOrder, notif, srv_tools, tool_index,
                   tool_cache, cpc, cop, fresh, lifeVars, descVars, auxVars>>

(***************************************************************************)
(* Specification of the Server Manager's lifecycle                         *)
(***************************************************************************)
DefStates == {"absent", "disabled", "enabled"}

AllOrders == UNION {Orders(S) : S \in SUBSET ServerIds}

InitMgr ==
    /\ records = CacheRegistry
    /\ InitCacheSessions
    /\ InitCallers
    /\ InitDesc
    /\ InitAux
    /\ defs \in [ServerIds -> DefStates]
    /\ runtime = [x \in ServerIds |-> NoRuntime]
    /\ started = StartResult("no", "none", {})
    /\ inserted = <<>>
    /\ mop = NoOp
    /\ servers = {}
    /\ iterOrder = <<>>
    /\ upstream = ZeroVersions
    /\ notif = ZeroVersions
    /\ needs_refresh = [x \in ServerIds |-> FALSE]
    /\ srv_tools = [x \in ServerIds |-> <<>>]
    /\ tool_index = EmptyMap
    /\ tool_cache = <<>>

NextMgr ==
    \/ \E lf \in SUBSET ServerIds, order \in AllOrders, tr \in Transients :
          MgrStart(lf, order, tr)
    \/ \E tr \in Transients : MgrListTools(tr)
    \/ \E t \in ToolNames, tr \in Transients, u \in UpstreamResults : MgrCallTool(t, tr, u)
    \/ \E id \in ServerIds, en \in BOOLEAN, ok \in BOOLEAN, order \in AllOrders,
          tr \in Transients : HttpUpdateEnabled(id, en, ok, order, tr)
    \/ \E id \in ServerIds, tr \in Transients : HttpDelete(id, tr)
    \/ \E id \in ServerIds : CliRemove(id)
    \/ \E id \in ServerIds, en \in BOOLEAN : CliSetEnabled(id, en)
    \/ \E x \in ServerIds : ConnectionLost(x)
    \/ \E x \in ServerIds : ToolListChanged(x)

SpecMgr == InitMgr /\ [][NextMgr]_vars

(***************************************************************************)
(* Tool descriptions: provider annotation and per-project override         *)
(***************************************************************************)
\* A description is a sequence of tokens; Marker is the text that
\* ToolEntry::into_tool searches for.
Marker == "[provided by"

\* format!("\n[provided by {name} (id: {id})]").
provider_note(name, id) == <<"\n", Marker, name, "(id:", id, ")]">>

\* A Tool value and a ToolEntry carrying it.
Tool(name, description) == [name |-> name, description |-> description]

DescribedEntry(server_id, server_name, tool) ==
    [server_id |-> server_id, server_name |-> server_name, tool |-> tool]

\* ToolEntry::into_tool.
into_tool(entry) ==
    LET merged ==
            IF entry.tool.description # None
            THEN LET base == entry.tool.description[1] IN
                 IF ~Contains(base, Marker)
                 THEN base \o provider_note(entry.server_name, entry.server_id)
                 ELSE base
            ELSE <<"Provided by", entry.server_name, "(id:", entry.server_id, ").">>
    IN  Tool(entry.tool.name, Some(merged))

\* ManagedServer::display_name: the definition's name, or its id when it has
\* none (here a is named and b is not).
display_name(id) == IF id = "a" THEN "Alpha" ELSE id

\* The ToolEntry that force_refresh_tool_cache built for cache entry e.
CachedEntry(e) ==
    DescribedEntry(e.server_id, display_name(e.server_id),
                   Tool(e.tool, tool_desc[e.server_id][e.tool]))

\* HostService::get_custom_description for session s.
get_custom_description(s, tool_name) ==
    LET r == load(records, project_id[s]) IN
    IF r # None
    THEN LET cs   == r[1].tool_customizations
             hits == {i \in 1..Len(cs) : cs[i].tool_name = tool_name}
         IN  IF hits # {}
             THEN cs[CHOOSE i \in hits : \A j \in hits : i <= j].description
             ELSE None
    ELSE None

\* What tools/list hands out for one allowed entry; provider and overridden
\* are history fields.
Surfaced(tool, server_id, overridden) ==
    [name |-> tool.name, description |-> tool.description, provider |-> server_id,
     overridden |-> overridden]

\* HostService::list_tools, the loop over the entries for session s.
RECURSIVE FilterAndDescribe(_, _)
FilterAndDescribe(s, es) ==
    IF es = <<>> THEN <<>>
    ELSE LET entry  == CachedEntry(Head(es))
             custom == get_custom_description(s, entry.tool.name)
             tool   == IF custom # None THEN Tool(entry.tool.name, Some(custom[1]))
                                        ELSE entry.tool
         IN  IF is_tool_allowed(s, entry.tool.name, entry.server_id)
             THEN <<Surfaced(tool, entry.server_id, custom # None)>>
                      \o FilterAndDescribe(s, Tail(es))
             ELSE FilterAndDescribe(s, Tail(es))

\* A variant of tools/list that writes the custom description into the cached
\* entry instead of the outgoing copy.
DescListTools_InPlace(s) ==
    /\ SpendOp(s)
    /\ surfaced' = [surfaced EXCEPT ![s] = Some(FilterAndDescribe(s, tool_cache))]
    /\ tool_desc' =
          [x \in ServerIds |-> [t \in ToolNames |->
              IF /\ \E i \in 1..Len(tool_cache) :
                        tool_cache[i].server_id = x /\ tool_cache[i].tool = t
                 /\ is_tool_allowed(s, t, x)
                 /\ get_custom_description(s, t) # None
              THEN get_custom_description(s, t)
              ELSE tool_desc[x][t]]]
    /\ UNCHANGED <<records, sessVars, mgrVars, cpc, cop, fresh, lifeVars, deco, auxVars>>

\* tools/list of session s over a Server Manager with nothing to refresh.
DescListTools(s) ==
    /\ SpendOp(s)
    /\ surfaced' = [surfaced EXCEPT ![s] = Some(FilterAndDescribe(s, tool_cache))]
    /\ UNCHANGED <<records, sessVars, mgrVars, cpc, cop, fresh, lifeVars, deco, tool_desc,
                   auxVars>>

ToolCustomization(tool_name, description) ==
    [tool_name |-> tool_name, description |-> description]

\* Texts an operator may set.
CustomTexts == {<<"custom">>, <<"other", Marker>>}

\* project_set_tool_desc / handle_project_set_tool_desc: retain the entries of
\* other tools, push the new one, store the record.
SetToolDesc(id, tool, text) ==
    /\ load(records, id) # None
    /\ SpendOp(id)
    /\ LET rec  == load(records, id)[1]
           kept == SelectSeq(rec.tool_customizations, LAMBDA c : c.tool_name # tool)
       IN  records' = store(records,
                            [rec EXCEPT !.tool_customizations =
                                Append(kept, ToolCustomization(tool, Some(text)))])
    /\ UNCHANGED <<sessVars, mgrVars, cpc, cop, fresh, lifeVars, descVars, auxVars>>

\* project_reset_tool_desc / handle_project_reset_tool_desc: retain the
\* entries of other tools; nothing is stored when none was removed.
ResetToolDesc(id, tool) ==
    /\ load(records, id) # None
    /\ SpendOp(id)
    /\ LET rec  == load(records, id)[1]
           kept == SelectSeq(rec.tool_customizations, LAMBDA c : c.tool_name # tool)
       IN  /\ Len(kept) # Len(rec.tool_customizations)
           /\ records' = store(records, [rec EXCEPT !.tool_customizations = kept])
    /\ UNCHANGED <<sessVars, mgrVars, cpc, cop, fresh, lifeVars, descVars, auxVars>>

\* Descriptions an upstream may give a tool.
UpstreamDescriptions == {None, Some(<<"text">>), Some(<<Marker, "text">>)}

\* Customizations the operator may have set before the first request.
EarlierCustomizations == {<<>>, <<ToolCustomization("t2", Some(<<"custom">>))>>}

\* Session s1 serves project /w, limited to server a without its t1, with the
\* customizations `custom`; session s2 serves /w/repo, whose record allows
\* everything and customizes nothing.
DescRegistry(custom) ==
    store(store(EmptyMap,
                WithPolicy(ProjectRecord_new(from_path(PW), PW),
                           Policy(<<"a">>, [x \in {"a"} |-> DenyList(<<"t1">>)], custom))),
          ProjectRecord_new(from_path(PR), PR))

InitDescriptions ==
    /\ \E custom \in EarlierCustomizations : records = DescRegistry(custom)
    /\ InitCacheSessions
    /\ InitCallers
    /\ \E order \in CacheOrders : InitManager(order) /\ InitLife(order)
    /\ deco = NoDeco
    /\ InitAux
    /\ surfaced = [s \in Sessions |-> None]
    /\ \E da \in UpstreamDescriptions, db \in UpstreamDescriptions :
          tool_desc = [x \in ServerIds |-> [t \in ToolNames |->
                          IF x = "a" THEN da ELSE db]]

NextDescriptions ==
    \/ \E s \in Sessions : DescListTools(s)
    \/ \E s \in Sessions, t \in ToolNames, text \in CustomTexts :
          SetToolDesc(project_id[s], t, text)
    \/ \E s \in Sessions, t \in ToolNames : ResetToolDesc(project_id[s], t)

SpecDescriptions == InitDescriptions /\ [][NextDescriptions]_vars

(***************************************************************************)
(* Specification of repeated decoration                                    *)
(***************************************************************************)
Tokens == {"text", Marker}

\* Upstream descriptions: absent, or up to MaxLen tokens.
Descriptions == {None} \cup {Some(d) : d \in UNION {[1..n -> Tokens] : n \in 0..MaxLen}}

\* Display names a definition may carry.
ServerNames == {"Alpha", "Beta"}

InitDecoration ==
    /\ records = CacheRegistry
    /\ InitCacheSessions
    /\ InitCallers
    /\ InitManager(SortedIds) /\ InitLife(SortedIds)
    /\ tool_desc = NoDescriptions
    /\ InitAux
    /\ surfaced = [s \in Sessions |-> None]
    /\ \E d \in Descriptions, name \in ServerNames, id \in ServerIds :
          deco = [NoDeco EXCEPT !.description = d, !.original = d,
                                !.server_name = name, !.server_id = id]

\* into_tool is applied to the entry whose tool is the previous result.
Decorate ==
    /\ deco.applied < MaxApply
    /\ LET out == into_tool(DescribedEntry(deco.server_id, deco.server_name,
                                           Tool("t1", deco.description)))
       IN  deco' = [deco EXCEPT !.description = out.description,
                                !.once = IF deco.applied = 0 THEN out.description ELSE @,
                                !.applied = @ + 1]
    /\ UNCHANGED <<records, sessVars, mgrVars, callVars, lifeVars, tool_desc, surfaced,
                   auxVars>>

NextDecoration == Decorate

SpecDecoration == InitDecoration /\ [][NextDecoration]_vars

(***************************************************************************)
(* Project Registry: files, fingerprint cache, store / delete / reads      *)
(***************************************************************************)
\* toml_edit::ser::to_string_pretty of a ToolCustomization and of a
\* ProjectRecord: a None is not written.
SerCustomization(c) ==
    IF c.description = None
    THEN [tool_name |-> c.tool_name]
    ELSE [tool_name |-> c.tool_name, description |-> c.description[1]]

\* A ToolPermission is written as a table tagged with "type"; All has no
\* tools key.
SerPermission(perm) ==
    IF perm.type = "All" THEN [type |-> "All"]
    ELSE [type |-> perm.type, tools |-> perm.tools]

DePermission(t) ==
    IF t.type = "All" THEN All
    ELSE IF t.type = "AllowList" THEN AllowList(t.tools)
    ELSE DenyList(t.tools)

SerPermissions(perms) == [sv \in DOMAIN perms |-> SerPermission(perms[sv])]

to_string_pretty(rec) ==
    LET cs == [i \in 1..Len(rec.tool_customizations) |->
                  SerCustomization(rec.tool_customizations[i])]
    IN  IF rec.agent = None
        THEN [id |-> rec.id, path |-> rec.path,
              allowed_server_ids |-> rec.allowed_server_ids,
              allowed_server_tools |-> SerPermissions(rec.allowed_server_tools),
              tool_customizations |-> cs]
        ELSE [id |-> rec.id, path |-> rec.path,
              allowed_server_ids |-> rec.allowed_server_ids,
              allowed_server_tools |-> SerPermissions(rec.allowed_server_tools),
              tool_customizations |-> cs, agent |-> rec.agent[1]]

\* What fs::write leaves behind when it fails after File::create.
Truncated == EmptyMap

\* toml_edit::de::from_str accepts a document that has the fields without a
\* serde default.
Parses(doc) == {"id", "path"} \subseteq DOMAIN doc

DeCustomization(t) ==
    [tool_name |-> t.tool_name,
     description |-> IF "description" \in DOMAIN t THEN Some(t.description) ELSE None]

\* ProjectRegistry::load_from_path for the file <stem>.toml: absent fields
\* take their default, a blank id is replaced by the file stem.
load_from_path(doc, stem) ==
    [id |-> IF doc.id = "" THEN stem ELSE doc.id,
     path |-> doc.path,
     allowed_server_ids |->
        IF "allowed_server_ids" \in DOMAIN doc THEN doc.allowed_server_ids ELSE <<>>,
     allowed_server_tools |->
        IF "allowed_server_tools" \in DOMAIN doc
        THEN [sv \in DOMAIN doc.allowed_server_tools |->
                 DePermission(doc.allowed_server_tools[sv])]
        ELSE EmptyMap,
     tool_customizations |->
        IF "tool_customizations" \in DOMAIN doc
        THEN [i \in 1..Len(doc.tool_customizations) |->
                 DeCustomization(doc.tool_customizations[i])]
        ELSE <<>>,
     agent |-> IF "agent" \in DOMAIN doc THEN Some(doc.agent) ELSE None]

File(doc, stamp) == Some([doc |-> doc, stamp |-> stamp])

Present(d) == {i \in DOMAIN d : d[i] # None}

\* ProjectRegistry::collect_fingerprint: modification time and length of
\* every .toml file; every write gives a file a stamp it never had.
collect_fingerprint(d) == Known([i \in Present(d) |-> d[i][1].stamp])

\* PathBuf keys of path_index compare and hash by components.
PathKey(path) == Components(path)

\* scan_records: the files are read in directory order; a later file takes
\* the path_index entry of an earlier one with an equal path.
RECURSIVE ScanIndex(_, _, _)
ScanIndex(acc, d, order) ==
    IF order = <<>> THEN acc
    ELSE LET rec == load_from_path(d[Head(order)][1].doc, Head(order))
         IN  ScanIndex(MapPut(acc, PathKey(rec.path), rec.id), d, Tail(order))

scan_records(d, order) ==
    [records_by_id |->
        LET recs == {load_from_path(d[i][1].doc, i) : i \in Present(d)}
        IN  [i \in {r.id : r \in recs} |-> CHOOSE r \in recs : r.id = i],
     path_index |-> ScanIndex(EmptyMap, d, order),
     fingerprint |-> collect_fingerprint(d),
     loaded |-> TRUE]

\* ensure_cache_fresh: the cached view is kept when it is loaded and its
\* fingerprint is the directory's; otherwise refresh_cache replaces it with a
\* scan, which fails on a file that does not parse.
ensure_cache_fresh(c, d, order) ==
    IF c.loaded /\ c.fingerprint = collect_fingerprint(d)
    THEN [ok |-> TRUE, cache |-> c, rescanned |-> FALSE]
    ELSE IF \E i \in Present(d) : ~Parses(d[i][1].doc)
    THEN [ok |-> FALSE, cache |-> c, rescanned |-> TRUE]
    ELSE [ok |-> TRUE, cache |-> scan_records(d, order), rescanned |-> TRUE]

\* ProjectRegistry::load and find_by_path on a fresh cache.
registry_load(c, id) ==
    IF id \in DOMAIN c.records_by_id THEN Some(c.records_by_id[id]) ELSE None

find_by_path(c, target) ==
    IF PathKey(target) \in DOMAIN c.path_index
    THEN registry_load(c, c.path_index[PathKey(target)])
    ELSE None

\* ProjectCache::record_vec: the cached records (in no particular order).
record_vec(c) == {c.records_by_id[i] : i \in DOMAIN c.records_by_id}

MapRemove(m, k) == [x \in DOMAIN m \ {k} |-> m[x]]

\* update_cache_after_store, with the file as fs::metadata finds it.
update_cache_after_store(c, rec, file) ==
    IF ~c.loaded THEN [c EXCEPT !.fingerprint = Unknown]
    ELSE LET index == IF rec.id \in DOMAIN c.records_by_id
                      THEN MapRemove(c.path_index, PathKey(c.records_by_id[rec.id].path))
                      ELSE c.path_index
         IN  [c EXCEPT
                !.records_by_id = MapPut(@, rec.id, rec),
                !.path_index = MapPut(index, PathKey(rec.path), rec.id),
                !.fingerprint =
                    IF c.fingerprint.kind = "Known" /\ file # None
                    THEN Known(MapPut(c.fingerprint.entries, rec.id, file[1].stamp))
                    ELSE Unknown]

\* update_cache_after_delete.
update_cache_after_delete(c, id) ==
    IF ~c.loaded THEN [c EXCEPT !.fingerprint = Unknown]
    ELSE [c EXCEPT
            !.records_by_id = MapRemove(@, id),
            !.path_index = IF id \in DOMAIN c.records_by_id
                           THEN MapRemove(@, PathKey(c.records_by_id[id].path))
                           ELSE @,
            !.fingerprint = IF c.fingerprint.kind = "Known"
                            THEN Known(MapRemove(c.fingerprint.entries, id))
                            ELSE Unknown]

\* The orders in which fs::read_dir may list a set of files.
AllFileOrders == UNION {Orders(S) : S \in SUBSET ProjectIds}

IsOrderOf(order, S) == Len(order) = Cardinality(S) /\ SeqToSet(order) = S

FileOrders(S) == {order \in AllFileOrders : IsOrderOf(order, S)}

\* The order of a read that does not scan (it is not used).
SomeOrder(S) == CHOOSE order \in AllFileOrders : IsOrderOf(order, S)

\* Records the daemon and other processes write: the id is the ProjectId of
\* the path; the agent distinguishes two versions of a record.
RegRecords ==
    {[ProjectRecord_new(from_path(path), path) EXCEPT !.agent = a] :
        path \in {PW, PR, PWS}, a \in Agents}

RegOp(k, op, arg, result, answer, rescanned) ==
    [task |-> k, op |-> op, arg |-> arg, result |-> result, answer |-> answer,
     rescanned |-> rescanned]

WriteOutcomes == {"ok", "unchanged", "truncated"}

\* ProjectRegistry::store up to fs::write: the file is written, or the write
\* fails and store returns the error without touching the cache.
StoreWrite(k, rec, outcome) ==
    /\ rpc[k].pc = "idle"
    /\ budget.ops > 0
    /\ outcome # "ok" => budget.failures > 0
    /\ budget' = [budget EXCEPT !.ops = @ - 1,
                                !.failures = IF outcome = "ok" THEN @ ELSE @ - 1]
    /\ disk' = CASE outcome = "ok" ->
                      [disk EXCEPT ![rec.id] = File(to_string_pretty(rec), clock)]
                 [] outcome = "truncated" ->
                      [disk EXCEPT ![rec.id] = File(Truncated, clock)]
                 [] outcome = "unchanged" -> disk
    /\ clock' = IF outcome = "unchanged" THEN clock ELSE clock + 1
    /\ rpc' = IF outcome = "ok"
              THEN [rpc EXCEPT ![k] = [pc |-> "store", rec |-> Some(rec), id |-> rec.id]]
              ELSE rpc
    /\ rop' = IF outcome = "ok" THEN rop
              ELSE RegOp(k, "store", Some(rec), "Err", None, FALSE)
    /\ UNCHANGED <<records, sessVars, mgrVars, cpc, cop, fresh, lifeVars, descVars, adminVars,
                   rcache>>

\* ProjectRegistry::store, update_cache_after_store and the return.
StorePatch(k) ==
    /\ rpc[k].pc = "store"
    /\ rcache' = update_cache_after_store(rcache, rpc[k].rec[1], disk[rpc[k].id])
    /\ rpc' = [rpc EXCEPT ![k] = IdleTask]
    /\ rop' = RegOp(k, "store", rpc[k].rec, "Ok", None, FALSE)
    /\ UNCHANGED <<records, sessVars, mgrVars, callVars, lifeVars, descVars, adminVars,
                   disk, clock>>

\* ProjectRegistry::delete up to fs::remove_file.
DeleteRemove(k, id, removed) ==
    /\ rpc[k].pc = "idle"
    /\ budget.ops > 0
    /\ (disk[id] # None /\ ~removed) => budget.failures > 0
    /\ budget' = [budget EXCEPT !.ops = @ - 1,
                                !.failures = IF disk[id] # None /\ ~removed
                                             THEN @ - 1 ELSE @]
    /\ IF disk[id] = None
       THEN /\ removed
            /\ rop' = RegOp(k, "delete", Some(id), "NotFound", None, FALSE)
            /\ UNCHANGED <<disk, rpc>>
       ELSE IF removed
       THEN /\ disk' = [disk EXCEPT ![id] = None]
            /\ rpc' = [rpc EXCEPT ![k] = [pc |-> "delete", rec |-> disk[id], id |-> id]]
            /\ rop' = rop
       ELSE /\ rop' = RegOp(k, "delete", Some(id), "Err", None, FALSE)
            /\ UNCHANGED <<disk, rpc>>
    /\ UNCHANGED <<records, sessVars, mgrVars, cpc, cop, fresh, lifeVars, descVars, adminVars,
                   rcache,
                   clock>>

\* ProjectRegistry::delete, update_cache_after_delete and the return.
DeletePatch(k) ==
    /\ rpc[k].pc = "delete"
    /\ rcache' = update_cache_after_delete(rcache, rpc[k].id)
    /\ rpc' = [rpc EXCEPT ![k] = IdleTask]
    /\ rop' = RegOp(k, "delete", Some(rpc[k].id), "Ok", rpc[k].rec, FALSE)
    /\ UNCHANGED <<records, sessVars, mgrVars, callVars, lifeVars, descVars, adminVars,
                   disk, clock>>

\* ProjectRegistry::load(id): ensure_cache_fresh, then the lookup.
RegLoad(k, id, order) ==
    /\ rpc[k].pc = "idle"
    /\ SpendOp(k)
    /\ IsOrderOf(order, Present(disk))
    /\ LET f == ensure_cache_fresh(rcache, disk, order) IN
       /\ ~f.rescanned => order = SomeOrder(Present(disk))
       /\ rcache' = f.cache
       /\ rop' = IF ~f.ok THEN RegOp(k, "load", Some(id), "Err", None, f.rescanned)
                 ELSE IF registry_load(f.cache, id) = None
                 THEN RegOp(k, "load", Some(id), "NotFound", None, f.rescanned)
                 ELSE RegOp(k, "load", Some(id), "Ok", registry_load(f.cache, id),
                            f.rescanned)
    /\ UNCHANGED <<records, sessVars, mgrVars, cpc, cop, fresh, lifeVars, descVars, adminVars, disk,
                   clock, rpc>>

\* ProjectRegistry::find_by_path(target).
RegFind(k, target, order) ==
    /\ rpc[k].pc = "idle"
    /\ SpendOp(k)
    /\ IsOrderOf(order, Present(disk))
    /\ LET f == ensure_cache_fresh(rcache, disk, order) IN
       /\ ~f.rescanned => order = SomeOrder(Present(disk))
       /\ rcache' = f.cache
       /\ rop' = IF ~f.ok THEN RegOp(k, "find", Some(target), "Err", None, f.rescanned)
                 ELSE RegOp(k, "find", Some(target), "Ok", find_by_path(f.cache, target),
                            f.rescanned)
    /\ UNCHANGED <<records, sessVars, mgrVars, cpc, cop, fresh, lifeVars, descVars, adminVars, disk,
                   clock, rpc>>

\* ProjectRegistry::list: ensure_cache_fresh, then every cached record.
RegList(k, order) ==
    /\ rpc[k].pc = "idle"
    /\ SpendOp(k)
    /\ IsOrderOf(order, Present(disk))
    /\ LET f == ensure_cache_fresh(rcache, disk, order) IN
       /\ ~f.rescanned => order = SomeOrder(Present(disk))
       /\ rcache' = f.cache
       /\ rop' = IF ~f.ok THEN RegOp(k, "list", None, "Err", None, f.rescanned)
                 ELSE RegOp(k, "list", None, "Ok", Some(record_vec(f.cache)), f.rescanned)
    /\ UNCHANGED <<records, sessVars, mgrVars, cpc, cop, fresh, lifeVars, descVars, adminVars, disk,
                   clock, rpc>>

\* Another process (CLI, HTTP admin of another daemon) writes or removes a
\* project file.
ExternalWrite(rec) ==
    /\ budget.ops > 0
    /\ budget.changes > 0
    /\ budget' = [budget EXCEPT !.changes = @ - 1]
    /\ disk' = [disk EXCEPT ![rec.id] = File(to_string_pretty(rec), clock)]
    /\ clock' = clock + 1
    /\ UNCHANGED <<records, sessVars, mgrVars, cpc, cop, fresh, lifeVars, descVars, adminVars,
                   rcache,
                   rpc, rop>>

ExternalRemove(id) ==
    /\ budget.ops > 0
    /\ budget.changes > 0
    /\ disk[id] # None
    /\ budget' = [budget EXCEPT !.changes = @ - 1]
    /\ disk' = [disk EXCEPT ![id] = None]
    /\ UNCHANGED <<records, sessVars, mgrVars, cpc, cop, fresh, lifeVars, descVars, adminVars,
                   rcache,
                   clock, rpc, rop>>

(***************************************************************************)
(* Specification of the Project Registry                                   *)
(***************************************************************************)
InitRegistry ==
    /\ records = CacheRegistry
    /\ InitCacheSessions
    /\ InitCallers
    /\ InitManager(SortedIds) /\ InitLife(SortedIds)
    /\ InitDesc
    /\ InitRegistryIdle
    /\ InitAdmin

NextRegistry ==
    \/ \E k \in RegTasks, rec \in RegRecords, outcome \in WriteOutcomes :
          StoreWrite(k, rec, outcome)
    \/ \E k \in RegTasks : StorePatch(k)
    \/ \E k \in RegTasks, id \in ProjectIds, removed \in BOOLEAN : DeleteRemove(k, id, removed)
    \/ \E k \in RegTasks : DeletePatch(k)
    \/ \E k \in RegTasks, id \in ProjectIds, order \in AllFileOrders : RegLoad(k, id, order)
    \/ \E k \in RegTasks, path \in {PW, PR, PWS}, order \in AllFileOrders :
          RegFind(k, path, order)
    \/ \E k \in RegTasks, order \in AllFileOrders : RegList(k, order)
    \/ \E rec \in RegRecords : ExternalWrite(rec)
    \/ \E id \in ProjectIds : ExternalRemove(id)

SpecRegistry == InitRegistry /\ [][NextRegistry]_vars

(***************************************************************************)
(* Project commands of the CLI and the HTTP admin API, and the handshake,  *)
(* on the registry's files                                                 *)
(***************************************************************************)
\* A registry seen by one process: the directory, that process's cache and
\* the time of the next write.
RegState(d, c, t) == [disk |-> d, cache |-> c, clock |-> t]

\* ProjectRegistry::store and ProjectRegistry::delete run to completion.
registry_store(rs, rec) ==
    LET file == File(to_string_pretty(rec), rs.clock)
    IN  RegState([rs.disk EXCEPT ![rec.id] = file],
                 update_cache_after_store(rs.cache, rec, file), rs.clock + 1)

registry_delete(rs, id) ==
    IF rs.disk[id] = None THEN rs
    ELSE RegState([rs.disk EXCEPT ![id] = None],
                  update_cache_after_delete(rs.cache, id), rs.clock)

\* The cache after the ensure_cache_fresh of a read.
Fresh(rs, order) == ensure_cache_fresh(rs.cache, rs.disk, order).cache

\* fs::canonicalize(path).unwrap_or(path) of the CLI and the HTTP API: the
\* canonical form when the directory exists, the path as given otherwise.
canonicalize_or_raw(raw, exists) == IF exists THEN Components(raw) ELSE raw

\* BTreeSet<String> collected into a Vec: the ids in ascending order.
SortedVec(S) == SelectSeq(SortedIds, LAMBDA id : id \in S)

\* A command's target: a path or a project id.
PathTarget(path) == [kind |-> "path", path |-> path, id |-> "none"]
IdTarget(id) == [kind |-> "id", path |-> <<>>, id |-> id]
Targets == {PathTarget(PW), PathTarget(PWS), PathTarget(PR), IdTarget("p1")}

\* handle_project_allow / handle_project_deny of the CLI (deny = FALSE /
\* TRUE): the record found by the canonical path, or for allow a new one.
cli_project_assign(rs, path, exists, server, deny, order) ==
    LET canonical == canonicalize_or_raw(path, exists)
        existing == find_by_path(Fresh(rs, order), canonical)
        theRecord == IF existing # None THEN existing[1]
                  ELSE ProjectRecord_new(from_path(canonical), canonical)
        allowed == IF deny THEN SeqToSet(theRecord.allowed_server_ids) \ {server}
                   ELSE SeqToSet(theRecord.allowed_server_ids) \cup {server}
    IN  IF deny /\ existing = None THEN [ok |-> FALSE, before |-> None, rec |-> None]
        ELSE [ok |-> TRUE, before |-> existing,
              rec |-> Some([theRecord EXCEPT !.allowed_server_ids = SortedVec(allowed),
                                          !.path = canonical])]

\* load_existing_project_with_path of the HTTP API: by normalized path,
\* then by id string.
load_existing_project_with_path(c, target, exists) ==
    LET path == canonicalize_or_raw(target.path, exists)
        byPath == IF target.kind = "path" THEN find_by_path(c, path) ELSE None
        byId == IF target.kind = "id" THEN registry_load(c, target.id) ELSE None
    IN  IF byPath # None THEN Some([record |-> byPath[1], canonical |-> path])
        ELSE IF byId # None THEN Some([record |-> byId[1], canonical |-> byId[1].path])
        ELSE None

\* load_or_create_project of the HTTP API.
load_or_create_project(c, target, exists) ==
    LET hit == load_existing_project_with_path(c, target, exists)
        path == canonicalize_or_raw(target.path, exists)
    IN  IF hit # None THEN hit[1]
        ELSE [record |-> ProjectRecord_new(from_path(path), path), canonical |-> path]

\* project_allow / project_deny of the HTTP API.
http_project_assign(c, target, exists, server, deny) ==
    LET hit == IF deny THEN load_existing_project_with_path(c, target, exists)
                 ELSE Some(load_or_create_project(c, target, exists))
    IN  IF hit = None THEN [ok |-> FALSE, before |-> None, rec |-> None]
        ELSE LET theRecord == hit[1].record
                 allowed == IF deny THEN SeqToSet(theRecord.allowed_server_ids) \ {server}
                            ELSE SeqToSet(theRecord.allowed_server_ids) \cup {server}
             IN  [ok |-> TRUE, before |-> Some(theRecord),
                  rec |-> Some([theRecord EXCEPT !.allowed_server_ids = SortedVec(allowed),
                                              !.path = hit[1].canonical])]

\* A tool spec as the command line or the JSON body gives it: its
\* characters, grouped so that "::" and a blank are one element each.
Sep == "::"
Blank == " "

\* str::split("::"): the pieces between the separators.
RECURSIVE split(_)
split(spec) ==
    IF \A i \in 1..Len(spec) : spec[i] # Sep THEN <<spec>>
    ELSE LET i == CHOOSE j \in 1..Len(spec) :
                     spec[j] = Sep /\ \A h \in 1..(j - 1) : spec[h] # Sep
         IN  <<SubSeq(spec, 1, i - 1)>> \o split(SubSeq(spec, i + 1, Len(spec)))

\* str::trim.
RECURSIVE trim(_)
trim(piece) ==
    IF piece = <<>> THEN piece
    ELSE IF Head(piece) = Blank THEN trim(Tail(piece))
    ELSE IF piece[Len(piece)] = Blank THEN trim(SubSeq(piece, 1, Len(piece) - 1))
    ELSE piece

\* The String of a piece.
StringTable ==
    <<  <<<<>>, "">>, <<<<"a">>, "a">>, <<<<"b">>, "b">>, <<<<"t1">>, "t1">>,
        <<<<"t2">>, "t2">>, <<<<"t3">>, "t3">>, <<<<Blank, "t1">>, " t1">>,
        <<<<"a", "t1">>, "at1">>  >>
to_string(piece) ==
    StringTable[CHOOSE i \in 1..Len(StringTable) : StringTable[i][1] = piece][2]

\* parse_tool_spec of the CLI: exactly two pieces, taken as they are.
cli_parse_tool_spec(spec) ==
    LET parts == split(spec)
    IN  IF Len(parts) # 2 THEN None
        ELSE Some([server |-> to_string(parts[1]), tool |-> to_string(parts[2])])

\* parse_tool_spec of the HTTP API: exactly two pieces, trimmed, not empty.
http_parse_tool_spec(spec) ==
    LET parts == split(spec)
    IN  IF Len(parts) # 2 THEN None
        ELSE IF trim(parts[1]) = <<>> \/ trim(parts[2]) = <<>> THEN None
        ELSE Some([server |-> to_string(trim(parts[1])),
                   tool |-> to_string(trim(parts[2]))])

\* The grouping loop: BTreeMap<server, Vec<tool>> of the parsed specs, or
\* None at the first spec that does not parse.
server_tools(parsed) ==
    IF \E i \in 1..Len(parsed) : parsed[i] = None THEN None
    ELSE LET names == {parsed[i][1].server : i \in 1..Len(parsed)}
             pick(sv) == SelectSeq(parsed, LAMBDA e : e[1].server = sv)
         IN  Some([sv \in names |->
                     [i \in 1..Len(pick(sv)) |-> pick(sv)[i][1].tool]])

\* A variant of the update loop that extends the server's previous list
\* instead of replacing its entry.
set_tool_permissions_Merge(theRecord, groups, deny) ==
    LET old == theRecord.allowed_server_tools
        kept(sv) == IF sv \in DOMAIN old THEN old[sv].tools ELSE <<>>
    IN  [theRecord EXCEPT !.allowed_server_tools =
            [sv \in DOMAIN old \cup DOMAIN groups |->
                IF sv \in DOMAIN groups
                THEN IF deny THEN DenyList(kept(sv) \o groups[sv])
                     ELSE AllowList(kept(sv) \o groups[sv])
                ELSE old[sv]]]

\* The update loop of allow-tools / deny-tools: one insert per server named.
set_tool_permissions(theRecord, groups, deny) ==
    [theRecord EXCEPT !.allowed_server_tools =
        [sv \in DOMAIN @ \cup DOMAIN groups |->
            IF sv \in DOMAIN groups
            THEN IF deny THEN DenyList(groups[sv]) ELSE AllowList(groups[sv])
            ELSE @[sv]]]

\* load_project_record of the CLI: by the path as given if it exists, then
\* by id string.
load_project_record(c, target, exists) ==
    LET byPath == IF target.kind = "path" /\ exists
                  THEN find_by_path(c, target.path) ELSE None
    IN  IF byPath # None THEN byPath
        ELSE IF target.kind = "id" THEN registry_load(c, target.id)
        ELSE None

ToolSpecs ==
    [ok1 |-> <<"a", Sep, "t1">>, ok2 |-> <<"a", Sep, "t2">>, ok3 |-> <<"b", Sep, "t3">>,
     blank |-> <<"a", Sep, Blank, "t1">>, nosep |-> <<"a", "t1">>,
     noserver |-> <<Sep, "t1">>]

\* The tool arguments of a command.
ToolArgs ==
    { <<ToolSpecs.ok1>>, <<ToolSpecs.ok2, ToolSpecs.ok1>>, <<ToolSpecs.ok1, ToolSpecs.ok3>>,
      <<ToolSpecs.ok1, ToolSpecs.ok1>>, <<ToolSpecs.blank>>, <<ToolSpecs.noserver>>,
      <<ToolSpecs.ok1, ToolSpecs.nosep>> }

ProjOp(by, op, arg, result, before) ==
    [task |-> by, op |-> op, arg |-> arg, result |-> result, answer |-> before,
     rescanned |-> FALSE]

\* `mcp-center project allow|deny <target> <server>`: a process of its own,
\* with a registry whose cache is not loaded.
CliProjectAssign(path, exists, server, deny, order) ==
    LET rs == RegState(disk, ProjectCache_default, clock)
        out == cli_project_assign(rs, path, exists, server, deny, order)
        after == IF out.ok THEN registry_store(rs, out.rec[1]) ELSE rs
    IN  /\ \A k \in RegTasks : rpc[k].pc = "idle"
        /\ SpendOp("cli")
        /\ IsOrderOf(order, Present(disk))
        /\ disk' = after.disk
        /\ clock' = after.clock
        /\ rop' = ProjOp("cli", IF deny THEN "deny" ELSE "allow", out.rec,
                         IF out.ok THEN "Ok" ELSE "Err", out.before)
        /\ UNCHANGED <<records, sessVars, mgrVars, cpc, cop, fresh, lifeVars, descVars, adminVars,
                       rcache, rpc>>

\* POST /api/project/allow and /deny, served by the daemon.
HttpProjectAssign(target, exists, server, deny, order) ==
    LET f == ensure_cache_fresh(rcache, disk, order)
        rs == RegState(disk, f.cache, clock)
        out == http_project_assign(f.cache, target, exists, server, deny)
        after == IF out.ok THEN registry_store(rs, out.rec[1]) ELSE rs
    IN  /\ \A k \in RegTasks : rpc[k].pc = "idle"
        /\ SpendOp("http")
        /\ IsOrderOf(order, Present(disk))
        /\ ~f.rescanned => order = SomeOrder(Present(disk))
        \* an id that names no record is taken as a relative path, which
        \* lies outside the paths of the model
        /\ (target.kind = "id" /\ ~deny) => registry_load(f.cache, target.id) # None
        /\ disk' = after.disk
        /\ clock' = after.clock
        /\ rcache' = after.cache
        /\ rop' = ProjOp("http", IF deny THEN "deny" ELSE "allow", out.rec,
                         IF out.ok THEN "Ok" ELSE "Err", out.before)
        /\ UNCHANGED <<records, sessVars, mgrVars, cpc, cop, fresh, lifeVars, descVars, adminVars,
                       rpc>>

\* `mcp-center project allow-tools|deny-tools <target> <spec>...`.
CliProjectTools(target, exists, tools, deny, order) ==
    LET rs == RegState(disk, ProjectCache_default, clock)
        hit == load_project_record(Fresh(rs, order), target, exists)
        groups == server_tools([i \in 1..Len(tools) |-> cli_parse_tool_spec(tools[i])])
        ok == hit # None /\ groups # None
        rec == IF ok THEN Some(set_tool_permissions(hit[1], groups[1], deny)) ELSE None
        after == IF ok THEN registry_store(rs, rec[1]) ELSE rs
    IN  /\ \A k \in RegTasks : rpc[k].pc = "idle"
        /\ SpendOp("cli")
        /\ IsOrderOf(order, Present(disk))
        /\ disk' = after.disk
        /\ clock' = after.clock
        /\ rop' = ProjOp("cli", IF deny THEN "deny-tools" ELSE "allow-tools",
                         Some([tools |-> tools, rec |-> rec]),
                         IF ok THEN "Ok" ELSE "Err", hit)
        /\ UNCHANGED <<records, sessVars, mgrVars, cpc, cop, fresh, lifeVars, descVars, adminVars,
                       rcache, rpc>>

\* POST /api/project/tools/allow and /deny.
HttpProjectTools(target, exists, tools, deny, order) ==
    LET f == ensure_cache_fresh(rcache, disk, order)
        rs == RegState(disk, f.cache, clock)
        loaded == load_existing_project_with_path(f.cache, target, exists)
        hit == IF loaded = None THEN None ELSE Some(loaded[1].record)
        groups == server_tools([i \in 1..Len(tools) |-> http_parse_tool_spec(tools[i])])
        ok == hit # None /\ groups # None
        rec == IF ok THEN Some(set_tool_permissions(hit[1], groups[1], deny)) ELSE None
        after == IF ok THEN registry_store(rs, rec[1]) ELSE rs
    IN  /\ \A k \in RegTasks : rpc[k].pc = "idle"
        /\ SpendOp("http")
        /\ IsOrderOf(order, Present(disk))
        /\ ~f.rescanned => order = SomeOrder(Present(disk))
        /\ disk' = after.disk
        /\ clock' = after.clock
        /\ rcache' = after.cache
        /\ rop' = ProjOp("http", IF deny THEN "deny-tools" ELSE "allow-tools",
                         Some([tools |-> tools, rec |-> rec]),
                         IF ok THEN "Ok" ELSE "Err", hit)
        /\ UNCHANGED <<records, sessVars, mgrVars, cpc, cop, fresh, lifeVars, descVars, adminVars,
                       rpc>>

\* handle_stream of the daemon, from the hello to the end of the roots
\* reconciliation: the record of the announced path is stored; when the
\* client's first root gives another id, the record of that id is stored
\* and the first one deleted if the root lies under the announced path.
handshake_store(rs, raw, exists) ==
    LET announced == IF normalize_project_path(raw, exists) # None
                        THEN normalize_project_path(raw, exists)[1] ELSE raw
        id == from_path(announced)
        loaded == registry_load(rs.cache, id)
        theRecord == IF loaded # None THEN [loaded[1] EXCEPT !.path = announced]
                  ELSE [ProjectRecord_new(id, announced)
                           EXCEPT !.allowed_server_ids = SortedIds]
    IN  [rs |-> registry_store(rs, theRecord), record |-> theRecord, path |-> announced]

reconcile_store(rs, theRecord, announced, rootPath) ==
    LET initial == theRecord.id
        real == from_path(rootPath)
        existing == registry_load(rs.cache, real)
        moved == IF existing # None THEN [existing[1] EXCEPT !.path = rootPath]
                 ELSE [ProjectRecord_new(real, rootPath)
                          EXCEPT !.allowed_server_ids = theRecord.allowed_server_ids,
                                 !.agent = theRecord.agent]
        stored == registry_store(rs, moved)
    IN  IF real # initial
        THEN IF starts_with(rootPath, announced)
             THEN registry_delete(stored, initial) ELSE stored
        ELSE IF existing # None /\ ~PathEq(existing[1].path, rootPath)
        THEN stored ELSE rs

RegHandshake(raw, exists, root, order) ==
    LET f == ensure_cache_fresh(rcache, disk, order)
        first == handshake_store(RegState(disk, f.cache, clock), raw, exists)
        after == IF root = None THEN first.rs
                 ELSE reconcile_store(first.rs, first.record, first.path, root[1])
    IN  /\ \A k \in RegTasks : rpc[k].pc = "idle"
        /\ SpendOp("daemon")
        /\ IsOrderOf(order, Present(disk))
        /\ ~f.rescanned => order = SomeOrder(Present(disk))
        /\ disk' = after.disk
        /\ clock' = after.clock
        /\ rcache' = after.cache
        /\ rop' = ProjOp("daemon", "handshake", Some(first.record), "Ok", root)
        /\ UNCHANGED <<records, sessVars, mgrVars, cpc, cop, fresh, lifeVars, descVars, adminVars,
                       rpc>>

\* The directory before the commands: empty, or holding the record of one
\* project with a policy an operator has set.
InitProjectFiles ==
    /\ records = CacheRegistry
    /\ InitCacheSessions
    /\ InitManager(SortedIds) /\ InitLife(SortedIds)
    /\ InitDesc
    /\ InitAdmin
    /\ rcache = ProjectCache_default
    /\ clock = 1
    /\ rpc = [k \in RegTasks |-> IdleTask]
    /\ rop = NoRegOp
    /\ \/ disk = [i \in ProjectIds |-> None]
       \/ \E pol \in OperatorPolicies :
             disk = [i \in ProjectIds |->
                       IF i = from_path(PW)
                       THEN File(to_string_pretty(
                                WithPolicy(ProjectRecord_new(i, PW), pol)), 0)
                       ELSE None]

InitProjects == InitCallers /\ InitProjectFiles

NextProjects ==
    \/ \E path \in {PW, PWS, PR}, exists, deny \in BOOLEAN, server \in ServerIds,
          order \in AllFileOrders : CliProjectAssign(path, exists, server, deny, order)
    \/ \E target \in Targets, exists, deny \in BOOLEAN, server \in ServerIds,
          order \in AllFileOrders : HttpProjectAssign(target, exists, server, deny, order)
    \/ \E raw \in {PW, PWS, PR}, exists \in BOOLEAN,
          root \in {None, Some(PW), Some(PWS), Some(PR)},
          order \in AllFileOrders : RegHandshake(raw, exists, root, order)

SpecProjects == InitProjects /\ [][NextProjects]_vars

\* One tool-level permission command on a directory an operator has set up.
InitProjectTools ==
    /\ cpc = [s \in Sessions |-> "idle"]
    /\ cop = [s \in Sessions |-> IdleOp]
    /\ fresh = [raised |-> ZeroVersions, index |-> ZeroVersions, cache |-> ZeroVersions]
    /\ budget = [ops |-> 1, changes |-> 0, failures |-> 0]
    /\ InitProjectFiles

NextProjectTools ==
    \/ \E target \in Targets, exists, deny \in BOOLEAN, tools \in ToolArgs,
          order \in AllFileOrders : CliProjectTools(target, exists, tools, deny, order)
    \/ \E target \in Targets, exists, deny \in BOOLEAN, tools \in ToolArgs,
          order \in AllFileOrders : HttpProjectTools(target, exists, tools, deny, order)

SpecProjectTools == InitProjectTools /\ [][NextProjectTools]_vars

(***************************************************************************)
(* Control socket: daemon start and the bridge's daemon discovery          *)
(***************************************************************************)
PollLimit == 2

\* LocalSocketStream::connect on the socket path: the error kind, or Ok.
connect(sock, procs) ==
    IF sock = None THEN "NotFound"
    ELSE IF procs[sock[1]] = "listening" THEN "Ok"
    ELSE "ConnectionRefused"

\* The outcome of a connect, a failure of another kind included.
ConnectOutcome(fault) == IF fault THEN "Other" ELSE connect(sockfile, dpc)

LeaveRest ==
    UNCHANGED <<records, sessVars, mgrVars, callVars, lifeVars, descVars, regVars, fileVars,
                extraVars>>

\* connect_or_launch up to the polling loop: the first connect, and on
\* not-found / connection-refused the removal of a refused socket file and
\* spawn_daemon.
BridgeConnect(b, fault, spawnOk, d) ==
    /\ bpc[b] = "start"
    /\ LET outcome == ConnectOutcome(fault) IN
       CASE outcome = "Ok" ->
              /\ bpc' = [bpc EXCEPT ![b] = "connected"]
              /\ bconn' = [bconn EXCEPT ![b] = sockfile[1]]
              /\ spawnOk /\ d = CHOOSE x \in Daemons : TRUE
              /\ UNCHANGED <<sockfile, dpc, bspawned, bticks>>
         [] outcome \in {"NotFound", "ConnectionRefused"} ->
              /\ sockfile' = IF outcome = "ConnectionRefused" THEN None ELSE sockfile
              /\ IF spawnOk
                 THEN /\ dpc[d] = "off"
                      /\ dpc' = [dpc EXCEPT ![d] = "starting"]
                      /\ bspawned' = [bspawned EXCEPT ![b] = Append(@, d)]
                      /\ bpc' = [bpc EXCEPT ![b] = "polling"]
                 ELSE /\ d = CHOOSE x \in Daemons : TRUE
                      /\ bpc' = [bpc EXCEPT ![b] = "error"]
                      /\ UNCHANGED <<dpc, bspawned>>
              /\ UNCHANGED <<bticks, bconn>>
         [] OTHER ->
              /\ bpc' = [bpc EXCEPT ![b] = "error"]
              /\ spawnOk /\ d = CHOOSE x \in Daemons : TRUE
              /\ UNCHANGED <<sockfile, dpc, bspawned, bticks, bconn>>
    /\ LeaveRest

\* A variant of the polling loop that never tests the deadline: the time
\* slept is kept within the deadline window and starts over.
BridgePoll_NoDeadline(b, fault, slept) ==
    /\ bpc[b] = "polling"
    /\ LET outcome == ConnectOutcome(fault) IN
       CASE outcome = "Ok" ->
              /\ bpc' = [bpc EXCEPT ![b] = "connected"]
              /\ bconn' = [bconn EXCEPT ![b] = sockfile[1]]
              /\ slept = 1
              /\ UNCHANGED bticks
         [] outcome \in {"NotFound", "ConnectionRefused"} ->
              /\ bticks' = [bticks EXCEPT ![b] = (@ + slept) % (PollLimit + 2)]
              /\ UNCHANGED <<bpc, bconn>>
         [] OTHER ->
              /\ bpc' = [bpc EXCEPT ![b] = "error"]
              /\ slept = 1
              /\ UNCHANGED <<bticks, bconn>>
    /\ UNCHANGED <<sockfile, dpc, bspawned>>
    /\ LeaveRest

\* One round of the polling loop: connect; on not-found / refused give up
\* once the deadline has passed, else sleep (time moves on by at least one
\* sleep; PollLimit sleeps fit into the deadline).
BridgePoll(b, fault, slept) ==
    /\ bpc[b] = "polling"
    /\ LET outcome == ConnectOutcome(fault) IN
       CASE outcome = "Ok" ->
              /\ bpc' = [bpc EXCEPT ![b] = "connected"]
              /\ bconn' = [bconn EXCEPT ![b] = sockfile[1]]
              /\ slept = 1
              /\ UNCHANGED bticks
         [] outcome \in {"NotFound", "ConnectionRefused"} ->
              IF bticks[b] > PollLimit
              THEN /\ bpc' = [bpc EXCEPT ![b] = "timeout"]
                   /\ slept = 1
                   /\ UNCHANGED <<bticks, bconn>>
              ELSE /\ bticks[b] + slept <= PollLimit + 1
                   /\ bticks' = [bticks EXCEPT ![b] = @ + slept]
                   /\ UNCHANGED <<bpc, bconn>>
         [] OTHER ->
              /\ bpc' = [bpc EXCEPT ![b] = "error"]
              /\ slept = 1
              /\ UNCHANGED <<bticks, bconn>>
    /\ UNCHANGED <<sockfile, dpc, bspawned>>
    /\ LeaveRest

\* spawn_control_server: fs::metadata of the socket path.
DaemonCheck(d) ==
    /\ dpc[d] = "starting"
    /\ dpc' = [dpc EXCEPT ![d] = IF sockfile # None THEN "remove" ELSE "bind"]
    /\ UNCHANGED <<sockfile, bpc, bspawned, bticks, bconn>>
    /\ LeaveRest

\* spawn_control_server: fs::remove_file of the socket path.
DaemonRemove(d) ==
    /\ dpc[d] = "remove"
    /\ IF sockfile = None
       THEN dpc' = [dpc EXCEPT ![d] = "failed"] /\ UNCHANGED sockfile
       ELSE dpc' = [dpc EXCEPT ![d] = "bind"] /\ sockfile' = None
    /\ UNCHANGED <<bpc, bspawned, bticks, bconn>>
    /\ LeaveRest

\* spawn_control_server: UnixListener::bind, which fails on an existing path.
DaemonBind(d) ==
    /\ dpc[d] = "bind"
    /\ IF sockfile # None
       THEN dpc' = [dpc EXCEPT ![d] = "failed"] /\ UNCHANGED sockfile
       ELSE dpc' = [dpc EXCEPT ![d] = "listening"] /\ sockfile' = Some(d)
    /\ UNCHANGED <<bpc, bspawned, bticks, bconn>>
    /\ LeaveRest

\* ControlServerHandle::shutdown after Ctrl+C: the listener is dropped and
\* the socket path removed.
DaemonShutdown(d) ==
    /\ dpc[d] = "listening"
    /\ dpc' = [dpc EXCEPT ![d] = "stopped"]
    /\ sockfile' = None
    /\ UNCHANGED <<bpc, bspawned, bticks, bconn>>
    /\ LeaveRest

\* The daemon is killed: its socket file stays behind.
DaemonKilled(d) ==
    /\ dpc[d] = "listening"
    /\ dpc' = [dpc EXCEPT ![d] = "dead"]
    /\ UNCHANGED <<sockfile, bpc, bspawned, bticks, bconn>>
    /\ LeaveRest

InitControl ==
    /\ records = CacheRegistry
    /\ InitCacheSessions
    /\ InitCallers
    /\ InitManager(SortedIds) /\ InitLife(SortedIds)
    /\ InitDesc
    /\ InitRegistryIdle
    /\ InitAdmin

BridgeStep(b) ==
    \/ \E fault, spawnOk \in BOOLEAN, d \in Daemons : BridgeConnect(b, fault, spawnOk, d)
    \/ \E fault \in BOOLEAN, slept \in 1..(PollLimit + 1) : BridgePoll(b, fault, slept)

NextControl ==
    \/ \E b \in BridgeProcs, fault, spawnOk \in BOOLEAN, d \in Daemons :
          BridgeConnect(b, fault, spawnOk, d)
    \/ \E b \in BridgeProcs, fault \in BOOLEAN, slept \in 1..(PollLimit + 1) :
          BridgePoll(b, fault, slept)
    \/ \E d \in Daemons : DaemonCheck(d)
    \/ \E d \in Daemons : DaemonRemove(d)
    \/ \E d \in Daemons : DaemonBind(d)
    \/ \E d \in Daemons : DaemonShutdown(d)
    \/ \E d \in Daemons : DaemonKilled(d)

SpecControl == InitControl /\ [][NextControl]_vars

\* A bridge is a running process: its connect_or_launch keeps taking steps.
SpecControlFair ==
    InitControl /\ [][NextControl]_vars /\ \A b \in BridgeProcs : WF_vars(BridgeStep(b))

(***************************************************************************)
(* Server definition files: init, mcp add and the HTTP create               *)
(***************************************************************************)
MaxFiles == 4

\* The ids generate_id can draw.
IdPool == 1..MaxFiles

\* The samples of handle_init, in the order written.
Samples == << <<"Context7">>, <<"DeepWiki">> >>

\* Names an operator gives to mcp add and to the HTTP create.
RawNames == { <<"a">>, <<Blank, "a">>, <<"Context7">>, <<Blank>>, <<>> }

\* The definition file <servers>/<id>.toml.
DefinitionFile(id, name) == [stem |-> id, id |-> id, name |-> name]

\* fs::write of a definition file: a file of the same path is replaced.
write_definition(files, file) == {f \in files : f.stem # file.stem} \cup {file}

\* The ids in the definitions listed by list_server_configs.
existing_ids(files) == {f.id : f \in files}

\* generate_id: any id not among the existing ones.
generate_id(existing) == IdPool \ existing

\* ensure_unique_name / ensure_unique_server_name_from_configs: no listed
\* definition has the candidate as its trimmed, non-empty name.
ensure_unique_name(files, candidate) ==
    \A f \in files : trim(f.name) = <<>> \/ trim(f.name) # candidate

\* destination.exists().
destination_exists(files, id) == \E f \in files : f.stem = id

LeaveControl ==
    UNCHANGED <<records, sessVars, mgrVars, callVars, lifeVars, descVars, regVars, ctlVars,
                extraVars>>

\* handle_init: each sample gets a new id and is written unless a file of
\* that id exists.
InitCmd(id1, id2) ==
    /\ Cardinality(dfiles) + Len(Samples) <= MaxFiles
    /\ id1 \in generate_id(existing_ids(dfiles))
    /\ LET first == IF destination_exists(dfiles, id1) THEN dfiles
                    ELSE write_definition(dfiles, DefinitionFile(id1, Samples[1]))
       IN  /\ id2 \in generate_id(existing_ids(first))
           /\ dfiles' = IF destination_exists(first, id2) THEN first
                        ELSE write_definition(first, DefinitionFile(id2, Samples[2]))
    /\ dop' = [by |-> "cli", op |-> "init", result |-> "ok"]
    /\ UNCHANGED creating
    /\ LeaveControl

\* add_inline and add_from_file: the name is trimmed and must be non-empty
\* and unused, the definition gets a new id and is written unless a file of
\* that id exists.
McpAdd(raw, id) ==
    /\ Cardinality(dfiles) < MaxFiles
    /\ id \in generate_id(existing_ids(dfiles))
    /\ LET name == trim(raw)
           ok == /\ name # <<>>
                 /\ ensure_unique_name(dfiles, name)
                 /\ ~destination_exists(dfiles, id)
       IN  /\ dfiles' = IF ok THEN write_definition(dfiles, DefinitionFile(id, name))
                        ELSE dfiles
           /\ dop' = [by |-> "cli", op |-> "add",
                      result |-> IF ok THEN "ok" ELSE "rejected"]
    /\ UNCHANGED creating
    /\ LeaveControl

\* create_mcp up to the write: the definitions are listed, the name is
\* trimmed and must be non-empty and unused among them, an id not among
\* theirs is drawn, and the destination must not exist.
HttpCreateBegin(c, raw, id) ==
    /\ creating[c].pc = "idle"
    /\ Cardinality(dfiles) + Cardinality({x \in Creators : creating[x].pc = "write"})
          < MaxFiles
    /\ id \in generate_id(existing_ids(dfiles))
    /\ LET name == trim(raw)
           ok == /\ name # <<>>
                 /\ ensure_unique_name(dfiles, name)
                 /\ ~destination_exists(dfiles, id)
       IN  /\ creating' = [creating EXCEPT ![c] =
                              IF ok THEN [pc |-> "write", name |-> name, id |-> id]
                              ELSE [pc |-> "rejected", name |-> name, id |-> 0]]
           /\ dop' = [by |-> c, op |-> "create",
                      result |-> IF ok THEN "checked" ELSE "rejected"]
    /\ UNCHANGED dfiles
    /\ LeaveControl

\* create_mcp: fs::write(...).await of the new definition.
HttpCreateWrite(c) ==
    /\ creating[c].pc = "write"
    /\ dfiles' = write_definition(dfiles, DefinitionFile(creating[c].id, creating[c].name))
    /\ creating' = [creating EXCEPT ![c].pc = "created"]
    /\ dop' = [by |-> c, op |-> "create", result |-> "ok"]
    /\ LeaveControl

InitServerFiles ==
    /\ records = CacheRegistry
    /\ InitCacheSessions
    /\ InitCallers
    /\ InitManager(SortedIds) /\ InitLife(SortedIds)
    /\ InitDesc
    /\ InitRegistryIdle
    /\ InitAdmin

NextServerFiles ==
    \/ \E id1, id2 \in IdPool : InitCmd(id1, id2)
    \/ \E raw \in RawNames, id \in IdPool : McpAdd(raw, id)
    \/ \E c \in Creators, raw \in RawNames, id \in IdPool : HttpCreateBegin(c, raw, id)
    \/ \E c \in Creators : HttpCreateWrite(c)

SpecServerFiles == InitServerFiles /\ [][NextServerFiles]_vars

(***************************************************************************)
(* ServerDefinition::validate                                              *)
(***************************************************************************)
Colon == ":"

\* Schemes with which url needs a host ("special" schemes), and others.
SpecialSchemes == {"https", "http"}
Schemes == SpecialSchemes \cup {"mailto"}

\* Url::parse of a trimmed text: an absolute URL starts with a scheme and a
\* colon; a special scheme needs a host after it.
Url_parse(text) ==
    /\ Len(text) >= 2
    /\ text[1] \in Schemes
    /\ text[2] = Colon
    /\ text[1] \in SpecialSchemes => (Len(text) >= 3 /\ text[3] # Blank)

\* A variant of validate that accepts any non-blank endpoint.
validate_NoUrlParse(d) ==
    IF d.name = None \/ trim(d.name[1]) = <<>> THEN "ServerNameEmpty"
    ELSE IF d.protocol = "stdio" /\ trim(d.command) = <<>> THEN "ServerCommandEmpty"
    ELSE IF d.protocol = "unknown" THEN "UnsupportedProtocol"
    ELSE IF d.protocol \in {"sse", "http"}
         THEN IF d.endpoint = None \/ trim(d.endpoint[1]) = <<>>
              THEN "ServerEndpointMissing"
              ELSE "Ok"
    ELSE "Ok"

\* ServerDefinition::validate: Ok, or the error it returns.
validate(d) ==
    IF d.name = None \/ trim(d.name[1]) = <<>> THEN "ServerNameEmpty"
    ELSE IF d.protocol = "stdio" /\ trim(d.command) = <<>> THEN "ServerCommandEmpty"
    ELSE IF d.protocol = "unknown" THEN "UnsupportedProtocol"
    ELSE IF d.protocol \in {"sse", "http"}
         THEN IF d.endpoint = None \/ trim(d.endpoint[1]) = <<>>
              THEN "ServerEndpointMissing"
              ELSE IF Url_parse(trim(d.endpoint[1])) THEN "Ok"
              ELSE "ServerEndpointInvalid"
    ELSE "Ok"

OptNames == {None, Some(<<>>), Some(<<Blank>>), Some(<<"DeepWiki">>)}
Protocols == {"stdio", "sse", "http", "unknown"}
Commands == {<<>>, <<Blank>>, <<"npx">>, <<Blank, "npx">>}
Endpoints ==
    {None, Some(<<>>), Some(<<Blank>>), Some(<<"https", Colon, "//h/sse">>),
     Some(<<Blank, "http", Colon, "//h/mcp", Blank>>), Some(<<"https", Colon>>),
     Some(<<"mailto", Colon>>), Some(<<"not", Blank, "a", Blank, "url">>)}

ServerDefinitions ==
    [name : OptNames, protocol : Protocols, command : Commands, endpoint : Endpoints]

LeaveAdmin ==
    UNCHANGED <<records, sessVars, mgrVars, callVars, lifeVars, descVars, regVars, ctlVars,
                fileVars>>

\* ServerConfig::new / from_file: the definition is validated.
Validate ==
    /\ vres = "none"
    /\ vres' = validate(vdef)
    /\ UNCHANGED <<vdef, rf, moreVars>>
    /\ LeaveAdmin

InitValidate ==
    /\ records = CacheRegistry
    /\ InitCacheSessions
    /\ InitCallers
    /\ InitManager(SortedIds) /\ InitLife(SortedIds)
    /\ InitDesc
    /\ InitRegistryIdle
    /\ InitControlIdle /\ InitFilesIdle
    /\ vdef \in ServerDefinitions
    /\ vres = "none"
    /\ rf = NoRefresh
    /\ InitMoreIdle

NextValidate == Validate

SpecValidate == InitValidate /\ [][NextValidate]_vars

(***************************************************************************)
(* refresh_cache step by step, against a directory that other processes    *)
(* change                                                                  *)
(***************************************************************************)
MAX_CACHE_REFRESH_ATTEMPTS == 3
MaxDirChanges == 4

\* Records other processes write while the registry scans.
DirRecords ==
    {[ProjectRecord_new(from_path(PW), PW) EXCEPT !.agent = a] : a \in Agents}
        \cup {ProjectRecord_new(from_path(PR), PR)}

LeaveRefresh ==
    UNCHANGED <<records, sessVars, mgrVars, cpc, cop, fresh, lifeVars, descVars, ctlVars,
                fileVars, valVars, moreVars>>

\* ensure_cache_fresh of a list / load / find_by_path: the directory's
\* fingerprint is collected; a loaded cache with that fingerprint is kept,
\* otherwise refresh_cache starts.
AccessBegin ==
    /\ rf.pc = "idle"
    /\ SpendOp("k1")
    /\ LET fingerprint == collect_fingerprint(disk) IN
       rf' = IF /\ rcache.loaded
                /\ rcache.fingerprint = fingerprint
                /\ fingerprint.kind # "Unknown"
             THEN [rf EXCEPT !.last = "cached", !.attempts = 0]
             ELSE [pc |-> "scan", attempts |-> 0, snapshot |-> None, last |-> "none"]
    /\ UNCHANGED <<disk, rcache, clock, rpc, rop>>
    /\ LeaveRefresh

\* refresh_cache: attempts += 1 and scan_records, which fails on a file that
\* does not parse.
RefreshScan(order) ==
    /\ rf.pc = "scan"
    /\ IsOrderOf(order, Present(disk))
    /\ rf' = IF \E i \in Present(disk) : ~Parses(disk[i][1].doc)
             THEN [pc |-> "idle", attempts |-> rf.attempts + 1, snapshot |-> None,
                   last |-> "err"]
             ELSE [pc |-> "confirm", attempts |-> rf.attempts + 1,
                   snapshot |-> Some(scan_records(disk, order)), last |-> "none"]
    /\ UNCHANGED <<disk, rcache, clock, rpc, rop, budget>>
    /\ LeaveRefresh

\* A variant of the confirmation that trusts the snapshot of the last
\* attempt.
RefreshConfirm_TrustLast ==
    /\ rf.pc = "confirm"
    /\ LET snapshot == rf.snapshot[1]
           confirm  == collect_fingerprint(disk)
       IN  IF snapshot.fingerprint = confirm \/ rf.attempts >= MAX_CACHE_REFRESH_ATTEMPTS
           THEN /\ rcache' = [snapshot EXCEPT !.fingerprint = confirm]
                /\ rf' = [rf EXCEPT !.pc = "idle", !.last = "known"]
           ELSE /\ rf' = [rf EXCEPT !.pc = "scan"]
                /\ UNCHANGED rcache
    /\ UNCHANGED <<disk, clock, rpc, rop, budget>>
    /\ LeaveRefresh

\* refresh_cache: the fingerprint is collected again; an equal one installs
\* the snapshot with it, a different one leads to another attempt, or after
\* the last attempt installs the snapshot with the fingerprint Unknown.
RefreshConfirm ==
    /\ rf.pc = "confirm"
    /\ LET snapshot == rf.snapshot[1]
           confirm  == collect_fingerprint(disk)
       IN  IF snapshot.fingerprint = confirm
           THEN /\ rcache' = [snapshot EXCEPT !.fingerprint = confirm]
                /\ rf' = [rf EXCEPT !.pc = "idle", !.last = "known"]
           ELSE IF rf.attempts >= MAX_CACHE_REFRESH_ATTEMPTS
           THEN /\ rcache' = [snapshot EXCEPT !.fingerprint = Unknown]
                /\ rf' = [rf EXCEPT !.pc = "idle", !.last = "unknown"]
           ELSE /\ rf' = [rf EXCEPT !.pc = "scan"]
                /\ UNCHANGED rcache
    /\ UNCHANGED <<disk, clock, rpc, rop, budget>>
    /\ LeaveRefresh

\* Another process writes or removes a project file.
DirWrite(rec) ==
    /\ ExternalWrite(rec)
    /\ UNCHANGED rf

DirRemove(id) ==
    /\ ExternalRemove(id)
    /\ UNCHANGED rf

InitRefresh ==
    /\ records = CacheRegistry
    /\ InitCacheSessions
    /\ cpc = [s \in Sessions |-> "idle"]
    /\ cop = [s \in Sessions |-> IdleOp]
    /\ fresh = [raised |-> ZeroVersions, index |-> ZeroVersions, cache |-> ZeroVersions]
    /\ budget = [ops |-> MaxOps, changes |-> MaxDirChanges, failures |-> 0]
    /\ InitManager(SortedIds) /\ InitLife(SortedIds)
    /\ InitDesc
    /\ InitRegistryIdle
    /\ InitAdmin

RefreshStep ==
    \/ \E order \in AllFileOrders : RefreshScan(order)
    \/ RefreshConfirm

NextRefresh ==
    \/ AccessBegin
    \/ \E order \in AllFileOrders : RefreshScan(order)
    \/ RefreshConfirm
    \/ \E rec \in DirRecords : DirWrite(rec)
    \/ \E id \in {from_path(PW), from_path(PR)} : DirRemove(id)

SpecRefresh == InitRefresh /\ [][NextRefresh]_vars

\* The registry access is a running call: refresh_cache keeps taking steps.
SpecRefreshFair == InitRefresh /\ [][NextRefresh]_vars /\ WF_vars(RefreshStep)

(***************************************************************************)
(* tools/list and tools/call of a session when two servers offer one name  *)
(***************************************************************************)
\* ServerManager::start has launched a and b and filled the cache; b offers
\* t1 as a does.
InitCollision(order) ==
    /\ iterOrder = order
    /\ servers = SeqToSet(order)
    /\ upstream = [x \in ServerIds |-> IF x = "b" THEN 1 ELSE 0]
    /\ notif = ZeroVersions
    /\ needs_refresh = [x \in ServerIds |-> FALSE]
    /\ srv_tools = [x \in ServerIds |-> ToolsOf(x, upstream[x])]
    /\ LET c == RefreshAll(EmptyCache, order, [x \in ServerIds |-> ToolsOf(x, upstream[x])])
       IN  /\ tool_index = c.index
           /\ tool_cache = c.entries

InitListCall ==
    /\ \E pol \in OperatorPolicies :
          records = store(EmptyMap, WithPolicy(ProjectRecord_new(from_path(PW), PW), pol))
    /\ InitCacheSessions
    /\ \E order \in CacheOrders : InitCollision(order) /\ InitLife(order)
    /\ InitCallers
    /\ InitDesc
    /\ InitAux

NextListCall ==
    \E s \in Sessions :
        \/ HostListTools(s)
        \/ HostListStep(s)
        \/ \E t \in ToolNames : HostCallTool(s, t)

SpecListCall == InitListCall /\ [][NextListCall]_vars

ReconcilePcs == {"rec_load", "rec_store", "rec_delete"}

\* C3: while the roots reconciliation of a session is in progress, every
\* permission lookup of the session uses the initial project id, and none is
\* evaluated against a project id that has no record yet.
C3_LookupsUseInitialIdUntilReconciled ==
    \A s \in Sessions :
        (lastCheck[s].valid /\ lastCheck[s].during \in ReconcilePcs) =>
            /\ lastCheck[s].pid = initial_project_id(s)
            /\ lastCheck[s].rec # None

\* C4: a real record created by the reconciliation has the policy fields
\* (allowed_server_ids, allowed_server_tools, tool_customizations) of the
\* initial record.
C4_NewRealRecordInheritsPolicy ==
    \A s \in Sessions :
        (reconciled[s].valid /\ reconciled[s].loaded = None) =>
            PolicyOf(reconciled[s].stored) = PolicyOf(reconciled[s].initial)

StrictDescendant(r, p) == starts_with(r, p) /\ ~PathEq(r, p)

Migrated(s) == pc[s] = "session" /\ reconciled[s].valid

C6_FreshHandshakeSeedsAllServers ==
    \A s \in Sessions :
        (pc[s] = "mcp_init" /\ ~found[s]) =>
            /\ initial_project_id(s) \in DOMAIN records
            /\ LET stored == records[initial_project_id(s)] IN
               /\ SeqToSet(stored.allowed_server_ids) = servers
               /\ Len(stored.allowed_server_ids) = Cardinality(servers)
               /\ reply[s] = <<ReadyMsg(stored.id, project_path[s],
                                        stored.allowed_server_ids)>>
               /\ stored.id = initial_project_id(s)

\* A fresh handshake with both servers running.
C6_Witness ==
    \E s \in Sessions :
        /\ pc[s] = "mcp_init"
        /\ ~found[s]
        /\ servers = {"a", "b"}
        /\ reply[s] # <<>>

ViolationKinds == {"eof", "garbage", "bridge_ready", "error"}

\* C8: a connection closed for a protocol violation in the handshake was sent
\* exactly an Error line, never BridgeReady, and the registry is as it was.
C8_ProtocolViolationGetsError ==
    \A s \in Sessions :
        (pc[s] = "closed" /\ hello[s].kind \in ViolationKinds) =>
            /\ Len(reply[s]) = 1
            /\ reply[s][1].type = "error"
            /\ records \in InitRegistries


(***************************************************************************)
(* Properties of the tool cache and of call routing (checked under         *)
(* SpecCache)                                                              *)
(***************************************************************************)
\* C2: a tools/call for a tool whose owning server, per the name->server
\* map, is disallowed for the session's project fails with InvalidParams
\* naming the tool and that server, and is never forwarded upstream: a
\* finished call was forwarded only to a server allowed for (project, tool),
\* and an InvalidParams answer names the tool and a disallowed owner.
C2_DisallowedCallNotForwarded ==
    \A c \in Callers :
        lastCall[c].valid /\ cop[c].kind = "call" =>
            /\ lastCall[c].forwarded # None =>
                   is_tool_allowed(c, lastCall[c].tool, lastCall[c].forwarded[1])
            /\ lastCall[c].result = "InvalidParams" =>
                   /\ lastCall[c].named # None
                   /\ lastCall[c].named[1][1] = lastCall[c].tool
                   /\ ~is_tool_allowed(c, lastCall[c].tool, lastCall[c].named[1][2])
                   /\ lastCall[c].forwarded = None

\* C9: once a server's needs_refresh flag has been raised, a list_tools or
\* call_tool that begins afterwards and completes reads a ToolEntry list /
\* name->server map holding data of that server at least as new as the
\* change the notification announced; no notification is lost, whatever its
\* timing relative to a refresh in progress.
C9_NoNotificationLost ==
    \A c \in Callers :
        cpc[c] = "idle" /\ lastCall[c].valid
        /\ lastCall[c].result \in {"Listed", "Ok", "InvalidParams", "MethodNotFound"}
            => ~cop[c].stale

\* C10: the name->server map and the ToolEntry list always come from one and
\* the same refresh: every name in the map has an entry in the list with that
\* server id, and every entry's name is in the map.
C10_IndexAndCacheFromOneRefresh ==
    /\ \A name \in DOMAIN tool_index :
           \E i \in 1..Len(tool_cache) :
               /\ tool_cache[i].tool = name
               /\ tool_cache[i].server_id = tool_index[name]
    /\ \A i \in 1..Len(tool_cache) : tool_cache[i].tool \in DOMAIN tool_index


(***************************************************************************)
(* Properties of the Server Manager's lifecycle (checked under SpecMgr)    *)
(***************************************************************************)
\* C11: tool-name collisions are resolved deterministically: after a refresh,
\* a tool name offered by several running servers is mapped to the last of
\* them in the stable iteration order, read either as the order of insertion
\* or as the order of the ids; with a and b both offering t and order [a, b],
\* t is mapped to b.
C11_CollisionWinnerIsLastInOrder ==
    (started.status = "ok" /\ mop.refreshed) =>
        \A name \in ToolNames :
            LET offer == {x \in servers : Contains(srv_tools[x], name)}
                pos(seq, x) == CHOOSE i \in 1..Len(seq) : seq[i] = x
                last(seq, x) == \A y \in offer : pos(seq, y) <= pos(seq, x)
            IN  offer # {} =>
                    /\ name \in DOMAIN tool_index
                    /\ tool_index[name] \in offer
                    /\ \/ last(inserted, tool_index[name])
                       \/ last(SortedIds, tool_index[name])

\* C12: a failure of one upstream's transport is fatal only for that
\* ManagedServer: list_tools still succeeds, and call_tool for a tool whose
\* owner is another, healthy upstream is still dispatched to it, also when a
\* refresh of the tool cache is due.
C12_UpstreamFailureIsLocal ==
    started.status = "ok" =>
        /\ mop.op = "list" => mop.result = "Ok"
        /\ (mop.op = "call" /\ mop.owner # None /\ mop.owner_up
                /\ mop.owner[1] \notin mop.affected) =>
               mop.forwarded = mop.owner

\* C13: start tolerates launch failures: when the launch of an enabled
\* definition fails, start still succeeds and the manager holds every enabled
\* definition whose launch succeeds (possibly none).
C13_StartToleratesLaunchFailures ==
    (started.status # "no" /\ started.cause # "refresh") =>
        /\ started.status = "ok"
        /\ mop.op = "none" => started.launched \subseteq servers

\* C14: call_tool for a name absent from the name->server map fails with
\* MethodNotFound and sends nothing upstream; otherwise the call is forwarded
\* to exactly the server the map names and the upstream's result is returned
\* unchanged, a transport failure of that call surfacing as Internal.
C14_CallToolRouting ==
    mop.op = "call" =>
        /\ mop.owner = None =>
               mop.result = "MethodNotFound" /\ mop.forwarded = None
        /\ mop.owner # None =>
               /\ mop.forwarded = mop.owner
               /\ \/ mop.result = mop.answer
                  \/ ~mop.owner_up /\ mop.result = "Internal"

\* C15: a disable_server(id) that stopped a running server leaves id out of
\* the server set, its connection cancelled, its pid file removed and no entry
\* for id in the ToolEntry list or the name->server map; a disable_server(id)
\* for a server that is not running returns false and changes nothing.
C15_DisableRemovesServerAndTools ==
    [][\A id \in ServerIds :
          LET disabling ==
                  \/ \E tr \in Transients : HttpUpdateEnabled(id, FALSE, TRUE, iterOrder, tr)
                  \/ \E tr \in Transients : HttpDelete(id, tr)
          IN  disabling =>
                  IF id \in servers
                  THEN /\ mop'.result # "Ok(false)"
                       /\ id \notin servers'
                       /\ runtime'[id].client = "none"
                       /\ ~runtime'[id].pid_file
                       /\ \A i \in 1..Len(tool_cache') : tool_cache'[i].server_id # id
                       /\ \A name \in DOMAIN tool_index' : tool_index'[name] # id
                  ELSE /\ mop'.result = "Ok(false)"
                       /\ UNCHANGED <<servers, iterOrder, runtime, srv_tools,
                                      needs_refresh, tool_index, tool_cache>>]_vars

\* C16: ensure_server_running(id) for an id already in the server set reports
\* that nothing was started and leaves the server set, the ManagedServer with
\* its connection, pid file and launch count, the needs_refresh flags and the
\* tool cache unchanged.
C16_EnsureRunningIdempotent ==
    [][\A id \in servers :
          (\E ok \in BOOLEAN, order \in AllOrders, tr \in Transients :
               HttpUpdateEnabled(id, TRUE, ok, order, tr)) =>
              /\ mop'.op = "ensure" /\ mop'.arg = id /\ mop'.result = "Ok(false)"
              /\ UNCHANGED <<servers, iterOrder, inserted, runtime, srv_tools,
                             needs_refresh, tool_index, tool_cache>>]_vars

\* ensure_server_running has answered Ok(false) for a running server.
C16_Witness ==
    /\ mop.op = "ensure" /\ mop.result = "Ok(false)"
    /\ mop.arg \in servers
    /\ runtime[mop.arg].client = "up" /\ runtime[mop.arg].launches = 1

\* C17 (I2): every ManagedServer in the manager's set corresponds to an existing
\* ServerDefinition whose enabled flag is true (an operator's runtime enable
\* over HTTP writes the flag before the server is started).
C17_RunningServersAreEnabledDefinitions ==
    \A id \in servers : defs[id] = "enabled"

(***************************************************************************)
(* Properties of tool descriptions                                         *)
(***************************************************************************)
\* C18: every tool that tools/list returned without a project override
\* carries the provider annotation of its owning server: the upstream
\* description followed by the provider note, appended exactly once (the
\* result of ToolEntry::into_tool is accepted as well).
C18_SurfacedToolsCarryProviderNote ==
    \A s \in Sessions :
        surfaced[s] # None =>
            \A i \in 1..Len(surfaced[s][1]) :
                LET t     == surfaced[s][1][i]
                    entry == CachedEntry(ToolEntry(t.provider, t.name))
                    base  == IF entry.tool.description = None THEN <<>>
                             ELSE entry.tool.description[1]
                    note  == provider_note(entry.server_name, entry.server_id)
                IN  ~t.overridden =>
                        \/ t.description = Some(base \o note)
                        \/ t.description = into_tool(entry).description

\* C19: decoration is idempotent: for every description, present or absent,
\* and every server name and id, decorating an already decorated tool yields
\* the description that decorating once yields.
C19_DecorationIdempotent ==
    deco.applied >= 2 => deco.description = deco.once

ReadsAfter(c, d) == {ensure_cache_fresh(c, d, order) : order \in FileOrders(Present(d))}

\* No other task of the daemon is inside a store or a delete.
OthersIdle(k) == \A j \in RegTasks \ {k} : rpc[j].pc = "idle"

AllFilesParse(d) == \A i \in Present(d) : Parses(d[i][1].doc)

\* C21: after registry.store(r) returns success, load(r.id) returns a record
\* equal to r and find_by_path(r.path) returns r, whatever the prior cache
\* state and whatever record previously had that id or that path.  Stated
\* for a store that no other writer overlaps and a directory whose files
\* all parse.
C21_StoreRoundTrip ==
    [][\A k \in RegTasks :
          (rop'.op = "store" /\ StorePatch(k) /\ OthersIdle(k) /\ AllFilesParse(disk)
             /\ disk[rpc[k].id] # None
             /\ disk[rpc[k].id][1].doc = to_string_pretty(rpc[k].rec[1]))
          => \A f \in ReadsAfter(rcache', disk') :
                /\ f.ok
                /\ registry_load(f.cache, rpc[k].id) = rpc[k].rec
                /\ find_by_path(f.cache, rpc[k].rec[1].path) = rpc[k].rec]_vars

\* C22: after registry.delete(id) returns success, load(id) fails with
\* not-found and find_by_path for the deleted record's path finds nothing;
\* delete of an id with no file returns a not-found error and leaves files
\* and cache unchanged.  Stated for a delete that no other writer overlaps
\* and a directory whose files all parse.
C22_DeleteRemovesRecord ==
    [][/\ \A k \in RegTasks :
            (rop'.op = "delete" /\ DeletePatch(k) /\ OthersIdle(k) /\ AllFilesParse(disk)
               /\ disk[rpc[k].id] = None /\ Parses(rpc[k].rec[1].doc))
            => \A f \in ReadsAfter(rcache', disk') :
                  /\ f.ok
                  /\ registry_load(f.cache, rpc[k].id) = None
                  /\ find_by_path(f.cache,
                                  load_from_path(rpc[k].rec[1].doc, rpc[k].id).path) = None
       /\ \A k \in RegTasks, id \in ProjectIds :
            (rop'.op = "delete" /\ DeleteRemove(k, id, TRUE) /\ disk[id] = None)
            => /\ rop'.result = "NotFound"
               /\ disk' = disk /\ rcache' = rcache]_vars

\* The records in the files of the directory.
OnDisk(d) == {load_from_path(d[i][1].doc, i) : i \in Present(d)}

\* The cached fingerprint is current: a read answers from the cache.
CacheCurrent(c, d) == c.loaded /\ c.fingerprint = collect_fingerprint(d)

\* C23: when the directory fingerprint differs from the cached one, the next
\* list / load / find_by_path rescans before answering and returns the
\* on-disk state (a record in the directory is found by its path); when the
\* fingerprint is unchanged and not Unknown, the cached view is returned
\* without a rescan.  Stated for a directory whose files all parse.
C23_ReadsRescanOnChangedFingerprint ==
    [][/\ \A k \in RegTasks, order \in AllFileOrders :
            (rop'.op = "list" /\ RegList(k, order)) =>
               IF CacheCurrent(rcache, disk)
               THEN /\ ~rop'.rescanned /\ rcache' = rcache
                    /\ rop'.answer = Some(record_vec(rcache))
               ELSE /\ rop'.rescanned
                    /\ AllFilesParse(disk) => rop'.answer = Some(OnDisk(disk))
       /\ \A k \in RegTasks, id \in ProjectIds, order \in AllFileOrders :
            (rop'.op = "load" /\ RegLoad(k, id, order)) =>
               IF CacheCurrent(rcache, disk)
               THEN /\ ~rop'.rescanned /\ rcache' = rcache
                    /\ rop'.answer = registry_load(rcache, id)
               ELSE /\ rop'.rescanned
                    /\ AllFilesParse(disk) =>
                          rop'.answer = IF disk[id] = None THEN None
                                        ELSE Some(load_from_path(disk[id][1].doc, id))
       /\ \A k \in RegTasks, path \in {PW, PR, PWS}, order \in AllFileOrders :
            (rop'.op = "find" /\ RegFind(k, path, order)) =>
               IF CacheCurrent(rcache, disk)
               THEN /\ ~rop'.rescanned /\ rcache' = rcache
                    /\ rop'.answer = find_by_path(rcache, path)
               ELSE /\ rop'.rescanned
                    /\ AllFilesParse(disk) =>
                          LET same == {r \in OnDisk(disk) : r.path = path}
                              equal == {r \in OnDisk(disk) : PathEq(r.path, path)}
                          IN  IF same # {} THEN rop'.answer \in {Some(r) : r \in same}
                              ELSE IF equal # {}
                              THEN rop'.answer \in {Some(r) : r \in equal}
                              ELSE rop'.answer = None]_vars

\* C24: whenever the cached fingerprint is Known and equals the current
\* directory fingerprint, the cached records equal the records in the files
\* on disk, under any interleaving of store / delete calls by several tasks
\* of the daemon or by other processes writing the same project id.
C24_CurrentCacheEqualsDisk ==
    (CacheCurrent(rcache, disk) /\ AllFilesParse(disk))
       => record_vec(rcache) = OnDisk(disk)

\* C25: if store or delete fails with a disk error, the cached fingerprint
\* is Unknown afterwards, so that the next read rescans the directory
\* instead of serving the cached view.  A cache that was never loaded
\* rescans whatever its fingerprint, and is accepted as it is.
C25_FailedWriteLeavesUnknown ==
    [][/\ \A k \in RegTasks, rec \in RegRecords :
            (rop'.op = "store"
               /\ (StoreWrite(k, rec, "unchanged") \/ StoreWrite(k, rec, "truncated")))
            => /\ rop'.result = "Err"
               /\ rcache'.loaded => rcache'.fingerprint = Unknown
               /\ \A f \in ReadsAfter(rcache', disk') : f.rescanned
       /\ \A k \in RegTasks, id \in ProjectIds :
            (rop'.op = "delete" /\ DeleteRemove(k, id, FALSE))
            => /\ rop'.result = "Err"
               /\ rcache'.loaded => rcache'.fingerprint = Unknown
               /\ \A f \in ReadsAfter(rcache', disk') : f.rescanned]_vars

(***************************************************************************)
(* Properties of the project commands (checked under SpecProjects and      *)
(* SpecProjectTools)                                                       *)
(***************************************************************************)
\* C26: every project record written by the handshake, the roots
\* reconciliation and the project allow / deny commands of the CLI and the
\* HTTP API has id = ProjectId(path), ProjectId being a function of the
\* path's bytes; a record never keeps its id while its path becomes one
\* with another ProjectId.
C26_IdIsProjectIdOfPath ==
    \A i \in Present(disk) :
        LET rec == load_from_path(disk[i][1].doc, i)
        IN  rec.id = from_path(rec.path)

\* The tools a command names for a server, in the order given, as the
\* interface reads the specs.
NamedTools(by, tools, sv) ==
    LET parse(spec) == IF by = "cli" THEN cli_parse_tool_spec(spec)
                       ELSE http_parse_tool_spec(spec)
        mine == SelectSeq(tools, LAMBDA spec : parse(spec)[1].server = sv)
    IN  [i \in 1..Len(mine) |-> parse(mine[i])[1].tool]

NamedServers(by, tools) ==
    {(IF by = "cli" THEN cli_parse_tool_spec(tools[i])
      ELSE http_parse_tool_spec(tools[i]))[1].server : i \in 1..Len(tools)}

\* C29: after `project allow-tools` / `project deny-tools` (CLI or HTTP)
\* naming tools of server S, allowed_server_tools[S] is exactly AllowList /
\* DenyList of the tools named in that command in the given order, any
\* previous entry for S being discarded, while the entries of other
\* servers, allowed_server_ids and tool_customizations are unchanged.
C29_ToolCommandsOverwrite ==
    [][(rop' # rop /\ rop'.op \in {"allow-tools", "deny-tools"} /\ rop'.result = "Ok")
       => LET before == rop'.answer[1]
              tools == rop'.arg[1].tools
              named == NamedServers(rop'.task, tools)
              after == load_from_path(disk'[before.id][1].doc, before.id)
          IN  /\ DOMAIN after.allowed_server_tools =
                    DOMAIN before.allowed_server_tools \cup named
              /\ \A sv \in named :
                    after.allowed_server_tools[sv] =
                       IF rop'.op = "deny-tools"
                       THEN DenyList(NamedTools(rop'.task, tools, sv))
                       ELSE AllowList(NamedTools(rop'.task, tools, sv))
              /\ \A sv \in DOMAIN before.allowed_server_tools \ named :
                    after.allowed_server_tools[sv] = before.allowed_server_tools[sv]
              /\ after.allowed_server_ids = before.allowed_server_ids
              /\ after.tool_customizations = before.tool_customizations
              /\ \A i \in ProjectIds \ {before.id} : disk'[i] = disk[i]]_vars

\* A deny-tools command has replaced an AllowList of the server it names,
\* in a record that has a customization and another server's entry or id.
C29_Witness ==
    /\ rop.op = "deny-tools" /\ rop.result = "Ok"
    /\ rop.answer[1].tool_customizations # <<>>
    /\ "a" \in DOMAIN rop.answer[1].allowed_server_tools
    /\ rop.answer[1].allowed_server_tools["a"].type = "AllowList"
    /\ "a" \in NamedServers(rop.task, rop.arg[1].tools)
    /\ Len(rop.arg[1].tools) = 2

(***************************************************************************)
(* Properties of the control socket (checked under SpecControl and         *)
(* SpecControlFair)                                                        *)
(***************************************************************************)
Listening == {d \in Daemons : dpc[d] = "listening"}

\* C27: at daemon start an existing socket file is removed only when it is
\* stale (no listener behind it); a socket on which another live daemon is
\* listening is never removed or taken over, so that at most one daemon
\* serves the control socket of a root, also when several bridges start
\* daemons concurrently.
C27_OnlyStaleSocketRemoved ==
    /\ [](Cardinality(Listening) <= 1)
    /\ [][\A d \in Daemons :
            (DaemonRemove(d) /\ sockfile # None) => sockfile[1] \notin Listening]_vars

BridgeDone(b) == bpc[b] \in {"connected", "error", "timeout"}

\* C28: daemon discovery of the bridge terminates.  A first connect that
\* succeeds spawns no daemon; not-found / connection-refused spawns the
\* daemon exactly once, then the bridge polls; it returns the stream as soon
\* as a connect succeeds, fails at once on any other connect error, and
\* gives up with a timeout only once the deadline has passed; it never
\* polls forever.
C28_DiscoveryTerminates ==
    /\ [][\A b \in BridgeProcs :
            /\ \A fault, spawnOk \in BOOLEAN, d \in Daemons :
                  BridgeConnect(b, fault, spawnOk, d) =>
                     CASE ConnectOutcome(fault) = "Ok" ->
                            bpc'[b] = "connected" /\ bspawned'[b] = <<>> /\ dpc' = dpc
                       [] ConnectOutcome(fault) = "Other" ->
                            bpc'[b] = "error" /\ bspawned'[b] = <<>> /\ dpc' = dpc
                       [] OTHER ->
                            IF spawnOk
                            THEN bpc'[b] = "polling" /\ Len(bspawned'[b]) = 1
                            ELSE bpc'[b] = "error" /\ bspawned'[b] = <<>>
            /\ \A fault \in BOOLEAN, slept \in 1..(PollLimit + 1) :
                  BridgePoll(b, fault, slept) =>
                     /\ bspawned'[b] = bspawned[b] /\ dpc' = dpc
                     /\ CASE ConnectOutcome(fault) = "Ok" ->
                               bpc'[b] = "connected" /\ bconn'[b] \in Listening
                          [] ConnectOutcome(fault) = "Other" -> bpc'[b] = "error"
                          [] OTHER ->
                               /\ bpc'[b] \in {"polling", "timeout"}
                               /\ bpc'[b] = "timeout" <=> bticks[b] > PollLimit
                               /\ bpc'[b] = "polling" => bticks'[b] > bticks[b]
            /\ Len(bspawned'[b]) <= 1
            /\ BridgeDone(b) => bpc'[b] = bpc[b]]_vars
    /\ \A b \in BridgeProcs : <>BridgeDone(b)

\* One bridge has given up after the deadline, another has been connected
\* by its polling loop to the daemon it spawned.
C28_Witness ==
    \E b, c \in BridgeProcs :
        /\ bpc[b] = "timeout" /\ Len(bspawned[b]) = 1
        /\ bpc[c] = "connected" /\ Len(bspawned[c]) = 1 /\ bticks[c] > 0

(***************************************************************************)
(* Properties of the server definition files (checked under                *)
(* SpecServerFiles)                                                        *)
(***************************************************************************)
\* (I1) of the definition files.
UniqueIdsAndNames ==
    \A f \in dfiles :
        /\ trim(f.name) # <<>>
        /\ \A g \in dfiles : f # g => f.id # g.id /\ trim(f.name) # trim(g.name)

Initialised(files) ==
    \A i \in 1..Len(Samples) : \E f \in files : f.name = Samples[i]

\* C30: after any sequence of creating operations (init, also repeated;
\* mcp add; HTTP create, also concurrent ones) every definition file has an
\* id different from every other's and a non-empty name different from
\* every other's; a second init leaves the definitions as they are.
C30_UniqueIdsAndNames ==
    /\ []UniqueIdsAndNames
    /\ [][\A id1, id2 \in IdPool :
            (InitCmd(id1, id2) /\ Initialised(dfiles)) => dfiles' = dfiles]_vars

(***************************************************************************)
(* Properties of ServerDefinition::validate (checked under SpecValidate)   *)
(***************************************************************************)
\* C31 as stated: for protocol sse or http validation fails iff the
\* endpoint is absent, blank or not parseable as a URL; for protocol stdio
\* validation fails iff the command is empty.
C31_ValidationAsStated ==
    vres # "none" =>
        /\ vdef.protocol \in {"sse", "http"} =>
              (vres # "Ok" <=> \/ vdef.endpoint = None
                               \/ trim(vdef.endpoint[1]) = <<>>
                               \/ ~Url_parse(trim(vdef.endpoint[1])))
        /\ vdef.protocol = "stdio" => (vres # "Ok" <=> vdef.command = <<>>)

\* C31 (amended): for a definition with a non-blank name, validation of
\* protocol sse or http fails iff the endpoint is absent, blank or not
\* parseable as a URL, and validation of protocol stdio fails iff the command
\* is empty or blank; a definition without a non-blank name always fails.
C31_Validation ==
    vres # "none" =>
        IF vdef.name = None \/ trim(vdef.name[1]) = <<>> THEN vres # "Ok"
        ELSE /\ vdef.protocol \in {"sse", "http"} =>
                   (vres # "Ok" <=> \/ vdef.endpoint = None
                                    \/ trim(vdef.endpoint[1]) = <<>>
                                    \/ ~Url_parse(trim(vdef.endpoint[1])))
             /\ vdef.protocol = "stdio" => (vres # "Ok" <=> trim(vdef.command) = <<>>)

\* A named remote definition whose endpoint is present but no URL has been
\* rejected.
C31_Witness ==
    /\ vres = "ServerEndpointInvalid"
    /\ vdef.protocol = "sse"
    /\ vdef.name = Some(<<"DeepWiki">>)

(***************************************************************************)
(* Properties of refresh_cache (checked under SpecRefreshFair)             *)
(***************************************************************************)
\* C32: a cache refresh ends within 3 scan attempts.  A snapshot is
\* installed with a Known fingerprint only if the fingerprint gathered by the
\* scan equals the one collected right after it; a different one leads to a
\* new scan, and after the third attempt installs the last snapshot with the
\* fingerprint Unknown.  An access that finds the fingerprint Unknown (or
\* different from the directory's) scans again instead of trusting the cache.
C32_RefreshTerminates ==
    /\ [](rf.attempts <= MAX_CACHE_REFRESH_ATTEMPTS)
    /\ [][RefreshConfirm =>
            LET snapshot == rf.snapshot[1]
                same == snapshot.fingerprint = collect_fingerprint(disk)
            IN  /\ (rf'.pc = "idle" /\ rcache'.fingerprint.kind = "Known") =>
                      same /\ rcache' = snapshot
                /\ rf'.pc = "idle" => rcache'.records_by_id = snapshot.records_by_id
                /\ (~same /\ rf.attempts < MAX_CACHE_REFRESH_ATTEMPTS) =>
                      rcache' = rcache /\ rf'.pc = "scan"
                /\ (~same /\ rf.attempts = MAX_CACHE_REFRESH_ATTEMPTS) =>
                      /\ rcache' = [snapshot EXCEPT !.fingerprint = Unknown]
                      /\ rf'.pc = "idle"
                /\ same => rcache'.fingerprint = snapshot.fingerprint]_vars
    /\ [][AccessBegin =>
            /\ rcache' = rcache
            /\ (\/ ~rcache.loaded
                \/ rcache.fingerprint.kind = "Unknown"
                \/ rcache.fingerprint # collect_fingerprint(disk)) <=> rf'.pc = "scan"]_vars
    /\ (rf.pc # "idle") ~> (rf.pc = "idle")

\* After a refresh whose three attempts all saw the directory change, the
\* next access has started a new scan.
C32_Witness ==
    /\ rf.pc = "scan"
    /\ rcache.loaded
    /\ rcache.fingerprint = Unknown
    /\ rf.last = "none"

(***************************************************************************)
(* Properties of the Host's tools/call against a changing tool cache       *)
(* (checked under SpecCache)                                               *)
(***************************************************************************)
\* C33: the upstream that receives a forwarded tools/call is the server the
\* session's permission check was made against: the server resolved at the
\* dispatch equals the server resolved for the check, whatever refreshes of
\* the tool cache run between the two (stated for the calls whose check was
\* made).
C33_DispatchToCheckedServer ==
    \A c \in Callers :
        (lastCall[c].valid /\ lastCall[c].result = "Ok" /\ lastCheck[c].valid) =>
            /\ lastCheck[c].tool = lastCall[c].tool
            /\ lastCall[c].forwarded = Some(lastCheck[c].server)

(***************************************************************************)
(* Properties of tools/list against tools/call (checked under              *)
(* SpecListCall, where neither the records nor the tool cache change)      *)
(***************************************************************************)
\* C34: every tool name the last tools/list of a session returned can be
\* called in that session without a permission (InvalidParams) error, also
\* when two servers offer the name and the project allows only one of them.
C34_ListedToolsCallable ==
    [][\A s \in Sessions, t \in ToolNames :
          (/\ entries[s] = None
           /\ Contains(filtered[s], t)
           /\ HostCallTool(s, t)) => lastCall'[s].result # "InvalidParams"]_vars

\* C37: a failed refresh loses nothing.  When a refresh fails on one
\* upstream's tool listing, the ToolEntry list and the name -> server map stay
\* as they were, and every server whose notified change is not in the cache
\* still has its needs_refresh flag set, so that the next list_tools /
\* call_tool refreshes again (stated for a refresh no other caller overlaps).
C37_FailedRefreshLosesNothing ==
    [][\A c \in Callers :
          (/\ cpc[c] = "fetch"
           /\ \A o \in Callers \ {c} : cpc[o] = "idle"
           /\ RefreshFetch(c, FALSE)) =>
              /\ tool_index' = tool_index
              /\ tool_cache' = tool_cache
              /\ \A x \in servers :
                    fresh'.raised[x] > fresh'.cache[x] => needs_refresh'[x]]_vars

(***************************************************************************)
(* Properties of project deny (checked under SpecProjects)                 *)
(***************************************************************************)
\* HostService::is_tool_allowed on a record the registry has loaded.
record_allows(rec, tool_name, server_id) ==
    IF server_id \in DOMAIN rec.allowed_server_tools
    THEN PermissionAllows(rec.allowed_server_tools[server_id], tool_name)
    ELSE IF rec.allowed_server_ids = <<>>
         THEN TRUE
         ELSE Contains(rec.allowed_server_ids, server_id)

\* C35: after a project deny (CLI or HTTP) has removed server S from the
\* allowed_server_ids of a project that has no tool-level entry for S, the
\* permission evaluation on the stored record denies every tool of S,
\* whatever the allow list was before, S as its only member included.
C35_DenyTakesEffect ==
    (rop.op = "deny" /\ rop.result = "Ok") =>
        LET before == rop.answer[1]
            stored == load_from_path(disk[rop.arg[1].id][1].doc, rop.arg[1].id)
        IN  \A sv \in SeqToSet(before.allowed_server_ids)
                         \ SeqToSet(stored.allowed_server_ids) :
                sv \notin DOMAIN stored.allowed_server_tools =>
                    \A t \in ToolNames : ~record_allows(stored, t, sv)

(***************************************************************************)
(* A handshake beside a live session                                       *)
(*                                                                         *)
(* Session s2 was launched in /w and is in its MCP session: its handshake  *)
(* has stored the record of /w (or found the operator's) and its           *)
(* project-id cell names it.  Bridge s1 connects and goes through          *)
(* handle_stream from the hello line to the roots reconciliation, while s2 *)
(* lists and calls tools.                                                  *)
(***************************************************************************)
InitBeside ==
    /\ records \in {r \in InitRegistries : from_path(PW) \in DOMAIN r}
    /\ pc = [s \in Sessions |-> IF s = "s1" THEN "accept" ELSE "session"]
    /\ hello = [s \in Sessions |-> NoLine]
    /\ project_path = [s \in Sessions |-> PW]
    /\ record = [s \in Sessions |-> NoRecord]
    /\ found = [s \in Sessions |-> FALSE]
    /\ real_path = [s \in Sessions |-> PW]
    /\ project_id = [s \in Sessions |-> IF s = "s1" THEN "none" ELSE from_path(PW)]
    /\ reply = [s \in Sessions |-> <<>>]
    /\ entries = [s \in Sessions |-> None]
    /\ filtered = [s \in Sessions |-> <<>>]
    /\ lastCheck = [s \in Sessions |-> NoCheck]
    /\ lastCall = [s \in Sessions |-> NoCall]
    /\ reconciled = [s \in Sessions |-> NoReconcile]
    /\ \E order \in InitOrders : InitManager(order) /\ InitLife(order)
    /\ InitCallers
    /\ InitDesc
    /\ InitAux

NextBeside ==
    \/ \E s \in Bridges :
        \/ \E line \in Lines, ok \in BOOLEAN : ReadHandshake(s, line, ok)
        \/ HandshakeLoad(s)
        \/ HandshakeStore(s)
        \/ \E ok \in BOOLEAN : McpServe(s, ok)
        \/ \E res \in RootsResults : RootsReply(s, res)
        \/ ReconcileLoad(s)
        \/ ReconcileStore(s)
        \/ ReconcileDelete(s)
        \/ ReconcileSameId(s)
    \/ \E s \in Sessions \ Bridges :
        \/ HostListTools(s)
        \/ HostListStep(s)
        \/ \E t \in ToolNames : HostCallTool(s, t)

SpecBeside == InitBeside /\ [][NextBeside]_vars

\* C36: the delete of the roots reconciliation of one session removes no
\* record that existed before that session's handshake and no record the
\* project id of another live session refers to, and it leaves the permission
\* decision of every other live session, for every tool of every server, as
\* it was.
C36_ReconcileLeavesOthersAlone ==
    [][\A s \in Bridges :
          (ReconcileDelete(s) /\ initial_project_id(s) \in DOMAIN records) =>
              /\ ~found[s]
              /\ \A o \in Sessions \ {s} :
                    pc[o] = "session" =>
                        /\ project_id[o] # initial_project_id(s)
                        /\ \A t \in ToolNames, x \in ServerIds :
                              is_tool_allowed(o, t, x)' = is_tool_allowed(o, t, x)]_vars

(***************************************************************************)
(* ensure_server_running step by step                                      *)
(*                                                                         *)
(* The HTTP handler of an enable request runs on the multi-thread runtime: *)
(* two requests for one id are two tasks in ensure_server_running.  Every  *)
(* await between the contains_key test and the insert is a step.  A        *)
(* spawned child is a number; er.held is the child of the ManagedServer in *)
(* the servers map under the id, er.pidfile the number in <id>.pid.        *)
(***************************************************************************)
MaxEnsure == 2

EnsureId == "a"

LeaveEnsure ==
    UNCHANGED <<records, sessVars, callVars, descVars, regVars, ctlVars, fileVars, valVars,
                rf, tn, upstream, notif, defs, started, mop>>

\* The read lock on the servers map: Ok(false) when the id is in it;
\* otherwise load_server_config and the start of ManagedServer::launch.
EnsureCheck(k) ==
    /\ er.pc[k] = "idle"
    /\ er.calls[k] < MaxEnsure
    /\ er' = IF EnsureId \in servers
             THEN [er EXCEPT !.calls[k] = @ + 1, !.result[k] = "Ok(false)"]
             ELSE [er EXCEPT !.calls[k] = @ + 1, !.result[k] = "none", !.pc[k] = "spawn"]
    /\ UNCHANGED mgrVars
    /\ UNCHANGED <<runtime, inserted>>
    /\ LeaveEnsure

\* spawn_local: TokioChildProcess::new starts the child (kill_on_drop), or
\* fails and the error is returned.
EnsureSpawn(k, ok) ==
    /\ er.pc[k] = "spawn"
    /\ er' = IF ok
             THEN [er EXCEPT !.pc[k] = "pidfile", !.proc[k] = er.next, !.next = @ + 1,
                             !.live = @ \cup {er.next}]
             ELSE [er EXCEPT !.pc[k] = "idle", !.result[k] = "Err"]
    /\ UNCHANGED mgrVars
    /\ UNCHANGED <<runtime, inserted>>
    /\ LeaveEnsure

\* spawn_local: fs::write(&pid_path, pid).
EnsureWritePid(k) ==
    /\ er.pc[k] = "pidfile"
    /\ er' = [er EXCEPT !.pc[k] = "serve", !.pidfile = er.proc[k]]
    /\ UNCHANGED mgrVars
    /\ UNCHANGED <<runtime, inserted>>
    /\ LeaveEnsure

\* spawn_local: adapter.serve(transport).await; on an error the transport is
\* dropped and the child killed, the pid file stays.
EnsureServe(k, ok) ==
    /\ er.pc[k] = "serve"
    /\ er' = IF ok
             THEN [er EXCEPT !.pc[k] = "insert"]
             ELSE [er EXCEPT !.pc[k] = "idle", !.result[k] = "Err", !.proc[k] = 0,
                             !.live = @ \ {er.proc[k]}]
    /\ UNCHANGED mgrVars
    /\ UNCHANGED <<runtime, inserted>>
    /\ LeaveEnsure

\* guard.insert(server_id, handle): the value the map held under the id is
\* returned by HashMap::insert and dropped, and its child is killed on drop.
EnsureInsert(k, order) ==
    /\ er.pc[k] = "insert"
    /\ order \in Orders(servers \cup {EnsureId})
    /\ IF EnsureId \in servers THEN order = iterOrder
                               ELSE Without(order, EnsureId) = iterOrder
    /\ er' = [er EXCEPT !.pc[k] = "refresh", !.held = er.proc[k],
                        !.replaced = IF er.held # 0 THEN @ \cup {er.held} ELSE @,
                        !.live = @ \ {er.held}]
    /\ servers' = servers \cup {EnsureId}
    /\ iterOrder' = order
    /\ inserted' = IF EnsureId \in servers THEN inserted ELSE Append(inserted, EnsureId)
    /\ runtime' = [runtime EXCEPT ![EnsureId] = Launched(EnsureId)]
    /\ needs_refresh' = [needs_refresh EXCEPT ![EnsureId] = TRUE]
    /\ UNCHANGED <<srv_tools, tool_index, tool_cache>>
    /\ LeaveEnsure

\* self.force_refresh_tool_cache().await?; Ok(true).
EnsureRefresh(k) ==
    /\ er.pc[k] = "refresh"
    /\ LET r == RefreshResult(iterOrder, Failing(runtime, {})) IN
       /\ ApplyRefresh(r, needs_refresh)
       /\ er' = [er EXCEPT !.pc[k] = "idle",
                           !.result[k] = IF r.ok THEN "Ok(true)" ELSE "Err"]
    /\ UNCHANGED <<servers, iterOrder, runtime, inserted>>
    /\ LeaveEnsure

\* The daemon runs server b; the definition of a is enabled and a is not
\* running (its launch at start failed, or it was disabled and enabled again).
InitEnsure ==
    /\ records = CacheRegistry
    /\ InitCacheSessions
    /\ InitCallers
    /\ InitManager(<<"b">>)
    /\ defs = [x \in ServerIds |-> "enabled"]
    /\ runtime = [x \in ServerIds |-> IF x = "b" THEN UpRuntime ELSE NoRuntime]
    /\ started = StartResult("ok", "none", {"b"})
    /\ inserted = <<"b">>
    /\ mop = NoOp
    /\ InitDesc
    /\ InitAux

NextEnsure ==
    \E k \in EnsureTasks :
        \/ EnsureCheck(k)
        \/ \E ok \in BOOLEAN : EnsureSpawn(k, ok)
        \/ EnsureWritePid(k)
        \/ \E ok \in BOOLEAN : EnsureServe(k, ok)
        \/ \E order \in AllOrders : EnsureInsert(k, order)
        \/ EnsureRefresh(k)

SpecEnsure == InitEnsure /\ [][NextEnsure]_vars

\* C38: whatever the interleaving of the ensure_server_running calls for one
\* id, no ManagedServer that was inserted into the servers map is replaced by
\* a later launch and dropped, and while the map holds a ManagedServer for the
\* id the pid file names the child of that ManagedServer.
C38_OneUpstreamPerId ==
    /\ er.replaced = {}
    /\ er.held # 0 => er.pidfile = er.held

(***************************************************************************)
(* The registry's path index under store and delete alone                  *)
(*                                                                         *)
(* The daemon's registry has listed the directory (its cache is loaded and *)
(* current); from then on only its own store and delete calls change the   *)
(* directory, and every write and remove succeeds.                         *)
(***************************************************************************)
InitPathIndex ==
    /\ records = CacheRegistry
    /\ InitCacheSessions
    /\ InitCallers
    /\ InitManager(SortedIds) /\ InitLife(SortedIds)
    /\ InitDesc
    /\ InitAdmin
    /\ \E present \in SUBSET {PW, PR} :
          disk = [i \in ProjectIds |->
                    IF \E path \in present : i = from_path(path)
                    THEN File(to_string_pretty(ProjectRecord_new(i,
                             CHOOSE path \in present : i = from_path(path))), 0)
                    ELSE None]
    /\ rcache = scan_records(disk, SomeOrder(Present(disk)))
    /\ clock = 1
    /\ rpc = [k \in RegTasks |-> IdleTask]
    /\ rop = NoRegOp

NextPathIndex ==
    \/ \E k \in RegTasks, rec \in RegRecords : StoreWrite(k, rec, "ok")
    \/ \E k \in RegTasks : StorePatch(k)
    \/ \E k \in RegTasks, id \in ProjectIds : DeleteRemove(k, id, TRUE)
    \/ \E k \in RegTasks : DeletePatch(k)
    \/ \E k \in RegTasks, path \in {PW, PR, PWS} :
          RegFind(k, path, SomeOrder(Present(disk)))

SpecPathIndex == InitPathIndex /\ [][NextPathIndex]_vars

\* C39: when only store and delete have changed the directory (no other
\* process has written or removed a file, no write has failed) and no call is
\* between its file operation and its cache update, every record in the
\* cache that a read works on (the cache after ensure_cache_fresh) is found by
\* its path: find_by_path(r.path) returns a record whose path equals r.path.
C39_CachedRecordsReachableByPath ==
    (/\ \A k \in RegTasks : rpc[k].pc = "idle"
     /\ budget.changes = MaxChanges
     /\ budget.failures = MaxFailures
     /\ rcache.loaded) =>
        LET f == ensure_cache_fresh(rcache, disk, SomeOrder(Present(disk))) IN
        /\ f.ok
        /\ \A r \in record_vec(f.cache) :
              LET hit == find_by_path(f.cache, r.path) IN
              hit # None /\ PathEq(hit[1].path, r.path)

(***************************************************************************)
(* tunnel_stdio: the bridge between the agent's STDIO and the daemon        *)
(*                                                                         *)
(* tn.stdin: requests the agent has written and the upstream task has not  *)
(* read; tn.c2d / tn.d2c: requests and responses in the socket;            *)
(* tn.forwarded: requests written to the socket; tn.out: responses copied  *)
(* to STDOUT.  The daemon answers every request it reads with one          *)
(* response and closes its side once it has read the end of the stream.    *)
(***************************************************************************)
MaxRequests == 2

LeaveTunnel ==
    UNCHANGED <<records, sessVars, mgrVars, callVars, lifeVars, descVars, regVars, ctlVars,
                fileVars, valVars, rf, er>>

\* The agent writes a request to the bridge's STDIN.
AgentWrite ==
    /\ ~tn.closed
    /\ tn.written < MaxRequests
    /\ tn' = [tn EXCEPT !.stdin = @ + 1, !.written = @ + 1]
    /\ LeaveTunnel

\* The agent closes the bridge's STDIN.
AgentClose ==
    /\ ~tn.closed
    /\ tn' = [tn EXCEPT !.closed = TRUE]
    /\ LeaveTunnel

\* One turn of the upstream task's loop: stdin.read, then write_all, or on a
\* read of 0 bytes write_half.shutdown and the end of the task.
UpstreamTurn ==
    /\ tn.bridge = "run"
    /\ tn.upstream = "run"
    /\ tn.stdin > 0 \/ tn.closed
    /\ tn' = IF tn.stdin > 0
             THEN [tn EXCEPT !.stdin = @ - 1, !.c2d = @ + 1, !.forwarded = @ + 1]
             ELSE [tn EXCEPT !.wshut = TRUE, !.upstream = "done"]
    /\ LeaveTunnel

\* The daemon's session reads a request and writes its response.
DaemonAnswer ==
    /\ ~tn.dclosed
    /\ tn.c2d > 0
    /\ tn' = [tn EXCEPT !.c2d = @ - 1, !.d2c = @ + 1]
    /\ LeaveTunnel

\* The daemon's session reads the end of the stream and closes its side.
DaemonEnd ==
    /\ ~tn.dclosed
    /\ tn.c2d = 0
    /\ tn.wshut \/ tn.bridge = "exit"
    /\ tn' = [tn EXCEPT !.dclosed = TRUE]
    /\ LeaveTunnel

\* The downstream task: tokio::io::copy moves what the socket holds to
\* STDOUT; at the end of the stream copy returns, stdout is flushed and the
\* task ends.
DownstreamTurn ==
    /\ tn.bridge = "run"
    /\ tn.downstream = "run"
    /\ tn.d2c > 0 \/ tn.dclosed
    /\ tn' = IF tn.d2c > 0
             THEN [tn EXCEPT !.d2c = @ - 1, !.out = @ + 1]
             ELSE [tn EXCEPT !.downstream = "done"]
    /\ LeaveTunnel

\* tokio::select!: the first branch that is ready ends tunnel_stdio; run
\* returns and the process exits, the other task with it.
SelectReturns(branch) ==
    /\ tn.bridge = "run"
    /\ CASE branch = "upstream"   -> tn.upstream = "done"
         [] branch = "downstream" -> tn.downstream = "done"
         [] branch = "ctrl_c"     -> TRUE
    /\ tn' = [tn EXCEPT !.bridge = "exit",
                        !.cause = CASE branch = "upstream" -> "stdin"
                                    [] branch = "downstream" -> "daemon"
                                    [] branch = "ctrl_c" -> "signal"]
    /\ LeaveTunnel

InitTunnel ==
    /\ records = CacheRegistry
    /\ InitCacheSessions
    /\ InitCallers
    /\ InitManager(SortedIds) /\ InitLife(SortedIds)
    /\ InitDesc
    /\ InitAux

NextTunnel ==
    \/ AgentWrite
    \/ AgentClose
    \/ UpstreamTurn
    \/ DaemonAnswer
    \/ DaemonEnd
    \/ DownstreamTurn
    \/ \E branch \in {"upstream", "downstream", "ctrl_c"} : SelectReturns(branch)

SpecTunnel == InitTunnel /\ [][NextTunnel]_vars

\* C40: when the bridge has ended because the agent closed STDIN, the
\* response to every request it had forwarded to the daemon has been copied
\* to STDOUT.
C40_PendingResponsesDelivered ==
    (tn.bridge = "exit" /\ tn.cause = "stdin") => tn.out = tn.forwarded

================================================================
